---- MODULE Spec2Model ----
(***************************************************************************)
(* Hyperpure GRN scheduler (src/app.py): the Drive-to-Sheet reconciliation *)
(* core.  The destination table, the failed-extractions table and the      *)
(* storage folder are external state; one sequential process runs          *)
(* process_drive_to_sheet_workflow, one external call per step, and every  *)
(* external call may fail the way the code's try/except blocks allow.      *)
(***************************************************************************)
EXTENDS Integers, Sequences, FiniteSets, TLC

\* ------------------------------------------------------------------------
\* Bounds of the model
\* ------------------------------------------------------------------------
MaxRuns == 2          \* runs of process_drive_to_sheet_workflow explored
MaxDocKeys == 2       \* document-level keys present in a drawn extraction
MaxFaults == 2        \* failing calls to the external services explored per behaviour

\* ------------------------------------------------------------------------
\* Program constants
\* ------------------------------------------------------------------------
ExtractRetries == 5       \* retries=5 passed to safe_extract
AppendWaitTime == 2           \* wait_time of append_to_google_sheet, seconds
AppendMaxRetries == 3     \* max_retries in append_to_google_sheet
MaxFiles == 1000          \* CONFIG['sheet']['max_files']
DestSheetId == 1          \* numeric id of the destination tab (any non-zero)
FailedSheetId == 0        \* get_sheet_id's failure value

\* ------------------------------------------------------------------------
\* Values.  Python's "", None and 0 are kept apart: `or` treats all three
\* as empty, the cleaning step drops only "" and None.
\* ------------------------------------------------------------------------
EMPTY == ""
NONE == "<None>"
ZERO == "<0>"
Falsy == {EMPTY, NONE, ZERO}
Scalars == {EMPTY, NONE, ZERO, "A", "B"}

Range(s) == {s[i] : i \in DOMAIN s}

Min(a, b) == IF a < b THEN a ELSE b

\* dict.get(k) with default None / with an explicit default
Get(d, k) == IF k \in DOMAIN d THEN d[k] ELSE NONE
GetDefault(d, k, dflt) == IF k \in DOMAIN d THEN d[k] ELSE dflt

\* Python's `a or b`
OrLast(a, b) == IF b \in Falsy THEN a ELSE b

Or(a, b) == IF a \in Falsy THEN b ELSE a

\* ------------------------------------------------------------------------
\* Storage folder: the archived PDFs, in list order (createdTime desc)
\* ------------------------------------------------------------------------
DriveFiles == <<"F1", "F2">>
FileIds == Range(DriveFiles)
FileName(id) == IF id = "F1" THEN "N1" ELSE "N2"
FileInfo(id) == [id |-> id, name |-> FileName(id)]

\* datetime.now().strftime(...) during run r
Now(r) == "T" \o ToString(r)

\* ------------------------------------------------------------------------
\* process_extracted_data
\* ------------------------------------------------------------------------
\* An extraction result is split into its scalar entries (fields) and its
\* list entries (lists: "items" and/or "product_items").
ItemsOfItemsOnly(extracted_data) ==
    IF "items" \in DOMAIN extracted_data.lists
    THEN extracted_data.lists["items"]
    ELSE <<>>

ItemsOf(extracted_data) ==
    IF "items" \in DOMAIN extracted_data.lists
    THEN extracted_data.lists["items"]
    ELSE IF "product_items" \in DOMAIN extracted_data.lists
         THEN extracted_data.lists["product_items"]
         ELSE <<>>

\* the eight assignments item[...] = ... of the loop body
Enrichment(d, file_info, now) ==
    [ po_number |-> Or(Get(d, "po_number"), Or(Get(d, "purchase_order_number"), EMPTY)),
      vendor_invoice_number |->
          Or(Get(d, "vendor_invoice_number"),
             Or(Get(d, "invoice_number"), Or(Get(d, "supplier_bill_number"), EMPTY))),
      supplier |-> Or(Get(d, "supplier"), Or(Get(d, "vendor"), EMPTY)),
      shipping_address |->
          Or(Get(d, "shipping_address"),
             Or(Get(d, "receiver_address"), Or(Get(d, "Shipping Address"), EMPTY))),
      grn_date |-> Or(Get(d, "grn_date"), Or(Get(d, "delivered_on"), EMPTY)),
      source_file |-> file_info.name,
      processed_date |-> now,
      drive_file_id |-> file_info.id ]

\* the assignments as item.setdefault(...): a value the item carries stays
EnrichItemKeepsOwn(item, d, file_info, now) ==
    LET e == Enrichment(d, file_info, now)
    IN [k \in (DOMAIN item) \cup (DOMAIN e) |->
            IF k \in DOMAIN item THEN item[k] ELSE e[k]]

EnrichItem(item, d, file_info, now) ==
    LET e == Enrichment(d, file_info, now)
    IN [k \in (DOMAIN item) \cup (DOMAIN e) |->
            IF k \in DOMAIN e THEN e[k] ELSE item[k]]

\* {k: v for k, v in item.items() if v not in ["", None]}
CleanItemKeepNone(item) ==
    [k \in {x \in DOMAIN item : item[x] # EMPTY} |-> item[k]]

CleanItem(item) ==
    [k \in {x \in DOMAIN item : item[x] \notin {EMPTY, NONE}} |-> item[k]]

ProcessExtractedData(extracted_data, file_info, now) ==
    LET items == ItemsOf(extracted_data)
    IN [i \in 1..Len(items) |->
            CleanItem(EnrichItem(items[i], extracted_data.fields, file_info, now))]

\* ------------------------------------------------------------------------
\* Inputs of process_extracted_data
\* ------------------------------------------------------------------------
DocKeys == {"po_number", "purchase_order_number", "vendor_invoice_number",
            "invoice_number", "supplier_bill_number", "supplier", "vendor",
            "shipping_address", "receiver_address", "Shipping Address",
            "grn_date", "delivered_on"}

\* every dict over at most n of the keys ks with values in vs
DictsUpTo(ks, vs, n) ==
    UNION {[dom -> vs] : dom \in {s \in SUBSET ks : Cardinality(s) <= n}}

\* line items: own keys, and own values under keys the enrichment writes
ItemDicts ==
    DictsUpTo({"sku", "amount"}, Scalars, 1)
        \cup {[sku |-> "A", po_number |-> "B"], [sku |-> NONE, drive_file_id |-> "B"],
              [amount |-> ZERO, supplier |-> EMPTY]}

ItemLists == {<<>>} \cup {<<i>> : i \in ItemDicts}
                 \cup {<<[sku |-> "A"], [sku |-> EMPTY, amount |-> "B"]>>}

ListDicts ==
    {<<>>} \cup {[k \in {key} |-> l] : key \in {"items", "product_items"}, l \in ItemLists}
           \cup {[items |-> <<[sku |-> "A"]>>, product_items |-> <<[sku |-> "B"], [sku |-> "B"]>>]}

ExtractionInputs ==
    [fields : DictsUpTo(DocKeys, Scalars, MaxDocKeys), lists : ListDicts]

\* ------------------------------------------------------------------------
\* The destination table.  A table is a sequence of rows, row 1 first; a row
\* is its cells plus two history fields that the program never reads: src,
\* the file the row was computed from, and gen, the run that wrote it.
\* ------------------------------------------------------------------------
HDR == "<header>"
HeaderRow(cells) == [cells |-> cells, src |-> HDR, gen |-> 0]

\* sorted(list(all_keys)): Python orders strings by code point
KeyOrder == <<"amount", "drive_file_id", "grn_date", "po_number", "processed_date",
              "shipping_address", "sku", "source_file", "supplier",
              "vendor_invoice_number">>
Sorted(S) == SelectSeq(KeyOrder, LAMBDA k : k \in S)

\* list(dict.fromkeys(s)): first occurrences, in order
FirstOccurrences(s) == {i \in 1..Len(s) : \A j \in 1..(i - 1) : s[j] # s[i]}
Dedupe(s) ==
    LET first == FirstOccurrences(s)
    IN [k \in 1..Cardinality(first) |->
           s[CHOOSE i \in first : Cardinality({j \in first : j < i}) = k - 1]]

\* list.index(x), 1-based; 0 stands for ValueError
IndexOf(s, x) ==
    IF x \in Range(s)
    THEN CHOOSE i \in 1..Len(s) : s[i] = x /\ \A j \in 1..(i - 1) : s[j] # x
    ELSE 0

\* values.get leaves out the trailing empty cells of a row
Trim(cells) ==
    IF cells = <<>> THEN <<>>
    ELSE IF cells[Len(cells)] # EMPTY THEN cells
    ELSE IF \A i \in 1..Len(cells) : cells[i] = EMPTY THEN <<>>
    ELSE SubSeq(cells, 1,
                CHOOSE i \in 1..Len(cells) :
                    cells[i] # EMPTY /\ \A j \in (i + 1)..Len(cells) : cells[j] = EMPTY)

\* spreadsheets().values().get(range=sheet_name).execute().get('values', [])
ReadValues(table) == [i \in 1..Len(table) |-> Trim(table[i].cells)]

\* get_sheet_data: the values, or [] when the read raises
GetSheetData(table, readOk) == IF readOk THEN ReadValues(table) ELSE <<>>

\* get_sheet_headers: row 1, or [] when there is none or the read raises
GetSheetHeaders(table, readOk) ==
    IF readOk /\ table # <<>> THEN Trim(table[1].cells) ELSE <<>>

\* get_existing_drive_ids
GetExistingDriveIdsFirstColumn(table, readOk) ==
    LET values == ReadValues(table)
    IN IF ~readOk \/ values = <<>> THEN {}
       ELSE IF "drive_file_id" \notin Range(values[1]) THEN {}
       ELSE {values[i][1] : i \in {j \in 2..Len(values) : values[j][1] # EMPTY}}

GetExistingDriveIds(table, readOk) ==
    LET values == ReadValues(table)
    IN IF ~readOk \/ values = <<>> THEN {}
       ELSE IF "drive_file_id" \notin Range(values[1]) THEN {}
       ELSE LET id_index == IndexOf(values[1], "drive_file_id")
            IN {values[i][id_index] :
                   i \in {j \in 2..Len(values) :
                             Len(values[j]) >= id_index /\ values[j][id_index] # EMPTY}}

\* values().update(range=A1:<n>1): overwrites the first n cells of row 1
WriteHeaderCells(table, new_headers) ==
    IF table = <<>> THEN <<HeaderRow(new_headers)>>
    ELSE LET old == table[1].cells
         IN <<HeaderRow(new_headers \o SubSeq(old, Len(new_headers) + 1, Len(old)))>>
                \o Tail(table)

\* update_headers: the write, or nothing when it raises (the caller ignores
\* the returned flag)
UpdateHeaders(table, new_headers, writeOk) ==
    IF writeOk THEN WriteHeaderCells(table, new_headers) ELSE table

\* the reconciled header of lines 853-866
NewHeaders(rows_data) ==
    Sorted(UNION {DOMAIN rows_data[i] : i \in DOMAIN rows_data})

CombinedSorted(headers, new_headers) ==
    Sorted(Range(headers) \cup Range(new_headers))

Combined(headers, new_headers) ==
    IF headers # <<>> THEN Dedupe(headers \o new_headers) ELSE new_headers

\* whether lines 859-866 issue the update_headers call
HeaderWriteIssuedAlways(headers, new_headers) == TRUE

HeaderWriteIssued(headers, new_headers) ==
    headers = <<>> \/ Combined(headers, new_headers) # headers

\* [row_dict.get(h, "") for h in headers] for every row
SheetRowsAllKeys(rows_data, headers) ==
    [i \in 1..Len(rows_data) |->
        [j \in 1..Len(Combined(headers, NewHeaders(rows_data))) |->
            GetDefault(rows_data[i], Combined(headers, NewHeaders(rows_data))[j], EMPTY)]]

SheetRows(rows_data, headers) ==
    [i \in 1..Len(rows_data) |->
        [j \in 1..Len(headers) |-> GetDefault(rows_data[i], headers[j], EMPTY)]]

\* rows_to_delete of lines 607-613: the 1-based positions of the rows whose
\* drive_file_id cell is file_id, highest first
Descending(S) ==
    [k \in 1..Cardinality(S) |->
        CHOOSE x \in S : Cardinality({y \in S : y > x}) = k - 1]

Ascending(S) ==
    [k \in 1..Cardinality(S) |->
        CHOOSE x \in S : Cardinality({y \in S : y < x}) = k - 1]

MatchingRows(values, file_id) ==
    LET file_id_col == IndexOf(values[1], "drive_file_id")
    IN {idx \in 2..Len(values) :
           Len(values[idx]) >= file_id_col /\ values[idx][file_id_col] = file_id}

RowsToDeleteAscending(values, file_id) == Ascending(MatchingRows(values, file_id))

RowsToDelete(values, file_id) == Descending(MatchingRows(values, file_id))

\* one deleteDimension request: removes the row now at position row_idx
DeleteRowZeroBased(table, row_idx) ==
    IF row_idx + 1 \in 1..Len(table)
    THEN SubSeq(table, 1, row_idx) \o SubSeq(table, row_idx + 2, Len(table))
    ELSE table

DeleteRow(table, row_idx) ==
    IF row_idx \in 1..Len(table)
    THEN SubSeq(table, 1, row_idx - 1) \o SubSeq(table, row_idx + 1, Len(table))
    ELSE table

\* batchUpdate applies the requests one after the other
RECURSIVE BatchDelete(_, _)
BatchDelete(table, rows_to_delete) ==
    IF rows_to_delete = <<>> THEN table
    ELSE BatchDelete(DeleteRow(table, Head(rows_to_delete)), Tail(rows_to_delete))

\* values().append: the rows go below the last row of the table
AppendRows(table, new_rows, file_id, r) ==
    table \o [i \in 1..Len(new_rows) |-> [cells |-> new_rows[i], src |-> file_id, gen |-> r]]

\* ------------------------------------------------------------------------
\* FailedExtraction records and the failed-extractions table
\* ------------------------------------------------------------------------
\* the 'issues' entry that goes with each status label
IssuesText(status) ==
    CASE status = "Download Failed" -> "Failed to download from Drive"
      [] status = "Extraction Failed" -> "All extraction attempts failed"
      [] status = "No Rows Extracted" -> "No rows after processing"
      [] OTHER -> "<str(e)>"

FailedRecord(file_id, status, attempts, strategy, now) ==
    [timestamp |-> now, file_name |-> FileName(file_id), file_id |-> file_id,
     status |-> status, issues |-> IssuesText(status), attempts |-> attempts,
     strategy_used |-> strategy]

FailedHeader == <<"Timestamp", "File Name", "File ID", "Status", "Items Extracted",
                  "Completeness Score", "Issues", "Attempts", "Strategy Used">>

FailedRow(f) ==
    <<f.timestamp, f.file_name, f.file_id, f.status, "0", "0.00%", f.issues,
      ToString(f.attempts), f.strategy_used>>

\* save_failed_extractions: clear, append the header, append the data; a
\* raising clear leaves the table as it was, a failed append adds nothing
SaveFailedExtractions(table, failed_files, clearOk, headerOk, dataOk) ==
    IF ~clearOk THEN table
    ELSE (IF headerOk THEN <<FailedHeader>> ELSE <<>>)
            \o (IF dataOk THEN [i \in 1..Len(failed_files) |-> FailedRow(failed_files[i])]
                ELSE <<>>)

\* ------------------------------------------------------------------------
\* What agent.extract returns during a run of the workflow
\* ------------------------------------------------------------------------
NoFields == <<>>
WorkflowDocs ==
    { [fields |-> NoFields, lists |-> <<>>],
      [fields |-> [invoice_number |-> "B"],
       lists |-> [product_items |-> <<[amount |-> "A"], [amount |-> "B"]>>]],
      [fields |-> NoFields,
       lists |-> [items |-> <<[sku |-> "A"], [sku |-> "B"], [sku |-> "A", amount |-> EMPTY]>>]] }

\* ------------------------------------------------------------------------
\* The mailbox and the storage folders of the mail workflow
\* ------------------------------------------------------------------------
\* CONFIG['mail']['attachment_filter']
AttachmentFilter == "attachment.pdf"

\* str.lower() on the file names that occur
Lower(name) ==
    IF name \in {"Attachment.PDF", "ATTACHMENT.PDF"} THEN "attachment.pdf" ELSE name

\* the three folder names find_target_folder looks up, outermost first
FolderPath == <<"Gmail_Attachments", "Hyperpure GRN", "PDFs">>
PdfsFolderId == "PDFS"

\* what search_emails finds
MailMessages == <<"M1", "M2">>

NoBody == <<>>

\* Payloads.  A part is a dict with the optional keys filename, body and
\* parts; id is a label of the part that the program never reads.
TreeDeep ==
    [id |-> "r", filename |-> EMPTY, body |-> NoBody,
     parts |-> <<
        [id |-> "p1", filename |-> EMPTY, body |-> NoBody,
         parts |-> <<
            [id |-> "p2", filename |-> EMPTY, body |-> NoBody,
             parts |-> << [id |-> "p3", filename |-> "Attachment.PDF",
                           body |-> [attachmentId |-> "a3"]] >>],
            [id |-> "p4", filename |-> "other.pdf", body |-> [attachmentId |-> "a4"]] >>],
        [id |-> "p5", filename |-> "attachment.pdf", body |-> [attachmentId |-> "a5"]] >>]

TreeOne ==
    [id |-> "r", filename |-> EMPTY, body |-> NoBody,
     parts |-> << [id |-> "p1", filename |-> EMPTY, body |-> NoBody],
                  [id |-> "p2", filename |-> "attachment.pdf",
                   body |-> [attachmentId |-> "a2"]] >>]

TreeNone ==
    [id |-> "r", filename |-> EMPTY, body |-> NoBody,
     parts |-> << [id |-> "p1"],
                  [id |-> "p2", filename |-> "attachment.pdf",
                   body |-> [attachmentId |-> EMPTY]],
                  [id |-> "p3", filename |-> "other.pdf",
                   body |-> [attachmentId |-> "a3"]] >>]

TreeFlat == [id |-> "r", filename |-> "ATTACHMENT.PDF", body |-> [attachmentId |-> "a0"]]

Payloads == {TreeDeep, TreeOne, TreeNone, TreeFlat}

PartIds == {"r", "p1", "p2", "p3", "p4", "p5"}

\* what the calls made for one part do: all return, or one of them raises
PartOutcomes == {"ok", "fetch_raises", "list_raises", "create_raises"}

\* find_target_folder: the three lookups, outermost first; raisesAt is the
\* lookup that raises (0: none).  None when a lookup raises or finds nothing.
LookupsMade(segs) ==
    IF FolderPath[1] \notin segs THEN 1
    ELSE IF FolderPath[2] \notin segs THEN 2 ELSE 3

FindTargetFolderOutermostOnly(segs, raisesAt) ==
    IF raisesAt # 0 THEN NONE
    ELSE IF FolderPath[1] \notin segs THEN NONE
    ELSE PdfsFolderId

FindTargetFolder(segs, raisesAt) ==
    IF raisesAt # 0 THEN NONE
    ELSE IF \E i \in 1..3 : FolderPath[i] \notin segs THEN NONE
    ELSE PdfsFolderId

\* upload_to_drive: the result and the folder afterwards
UploadToDriveAlways(filename, folder, message_id, outcome) ==
    LET prefixed_filename == message_id \o "_" \o filename
    IN IF outcome = "list_raises"
       THEN [ok |-> FALSE, folder |-> folder, raised |-> TRUE]
       ELSE IF outcome = "create_raises"
       THEN [ok |-> FALSE, folder |-> folder, raised |-> TRUE]
       ELSE [ok |-> TRUE, folder |-> Append(folder, prefixed_filename), raised |-> FALSE]

UploadToDrive(filename, folder, message_id, outcome) ==
    LET prefixed_filename == message_id \o "_" \o filename
    IN IF outcome = "list_raises"
       THEN [ok |-> FALSE, folder |-> folder, raised |-> TRUE]
       ELSE IF prefixed_filename \in Range(folder)
       THEN [ok |-> TRUE, folder |-> folder, raised |-> FALSE]
       ELSE IF outcome = "create_raises"
       THEN [ok |-> FALSE, folder |-> folder, raised |-> TRUE]
       ELSE [ok |-> TRUE, folder |-> Append(folder, prefixed_filename), raised |-> FALSE]

\* process_attachment
ProcessAttachment(message_id, part, folder, outcome) ==
    LET filename == Lower(GetDefault(part, "filename", EMPTY))
    IN IF filename # Lower(AttachmentFilter)
       THEN [ok |-> FALSE, folder |-> folder, raised |-> FALSE]
       ELSE IF Get(part.body, "attachmentId") \in Falsy
       THEN [ok |-> FALSE, folder |-> folder, raised |-> FALSE]
       ELSE IF outcome = "fetch_raises"
       THEN [ok |-> FALSE, folder |-> folder, raised |-> TRUE]
       ELSE UploadToDrive(filename, folder, message_id, outcome)

\* extract_attachments_from_email.  w is the world the calls act on: the
\* PDFs folder, plus two histories, the parts visited and the parts at which
\* a call raised.  The result is the count and the world afterwards.
RECURSIVE ExtractAttachments(_, _, _, _)
RECURSIVE ExtractParts(_, _, _, _, _)
ExtractPartsStopAtFailure(message_id, parts, i, acc, oracle) ==
    IF i > Len(parts) \/ acc.w.raisedAt # {} THEN acc
    ELSE LET r == ExtractAttachments(message_id, parts[i], acc.w, oracle)
         IN ExtractParts(message_id, parts, i + 1,
                         [count |-> acc.count + r.count, w |-> r.w], oracle)

ExtractParts(message_id, parts, i, acc, oracle) ==
    IF i > Len(parts) THEN acc
    ELSE LET r == ExtractAttachments(message_id, parts[i], acc.w, oracle)
         IN ExtractParts(message_id, parts, i + 1,
                         [count |-> acc.count + r.count, w |-> r.w], oracle)

ExtractAttachmentsTopOnly(message_id, payload, w, oracle) ==
    LET w0 == [w EXCEPT !.visited = Append(@, payload.id)]
    IN IF "filename" \in DOMAIN payload
            /\ "attachmentId" \in DOMAIN GetDefault(payload, "body", NoBody)
       THEN LET r == ProcessAttachment(message_id, payload, w0.folder, oracle[payload.id])
            IN [count |-> IF r.ok THEN 1 ELSE 0,
                w |-> [w0 EXCEPT !.folder = r.folder,
                                 !.raisedAt = IF r.raised THEN @ \cup {payload.id} ELSE @]]
       ELSE [count |-> 0, w |-> w0]

ExtractAttachments(message_id, payload, w, oracle) ==
    LET w0 == [w EXCEPT !.visited = Append(@, payload.id)]
        sub == IF "parts" \in DOMAIN payload
               THEN ExtractParts(message_id, payload.parts, 1, [count |-> 0, w |-> w0], oracle)
               ELSE [count |-> 0, w |-> w0]
    IN IF "filename" \in DOMAIN payload
            /\ "attachmentId" \in DOMAIN GetDefault(payload, "body", NoBody)
       THEN LET r == ProcessAttachment(message_id, payload, sub.w.folder, oracle[payload.id])
            IN [count |-> sub.count + (IF r.ok THEN 1 ELSE 0),
                w |-> [sub.w EXCEPT !.folder = r.folder,
                                    !.raisedAt = IF r.raised THEN @ \cup {payload.id} ELSE @]]
       ELSE sub

\* ------------------------------------------------------------------------
\* State
\* ------------------------------------------------------------------------
VARIABLES
    sheet,                   \* the destination table (hyperpuregrn)
    failedSheet,             \* the failed_extractions table, rows of cells
    pc,                      \* position of the process
    run,                     \* runs started so far
    sheet_id,                \* get_sheet_id's result for this run
    existing_ids,            \* get_existing_drive_ids' result for this run
    pdf_files,               \* files still to process; the head is pdf_file
    headers,                 \* the run's header list
    headers_set,
    incomplete_extractions,
    stats,
    attempt,                 \* loop variable of safe_extract / append_to_google_sheet
    rows_data,               \* process_extracted_data's result for pdf_file
    sheet_rows,              \* new_rows handed to replace_rows_for_file
    rows_to_delete,
    replace_ok,              \* replace_rows_for_file's return value
    extracted_data,          \* argument of process_extracted_data (function spec)
    ped_rows,                \* its result (function spec)
    g_start,                 \* history: the table when the run started
    g_pre,                   \* history: the table when replace_rows_for_file was entered
    g_outcome,               \* history: terminal outcome of each file in this run
    g_fifth,                 \* history: files whose extraction returned on the last attempt
    g_waits,                 \* history: the sleeps of the current append_to_google_sheet call
    g_killed,                \* history: some run was terminated inside its file loop
    faults,                  \* failing calls to the external services so far
    segments,                \* folders of the path Gmail_Attachments/Hyperpure GRN/PDFs that exist
    mailbox,                 \* the payload (MIME part tree) of each message
    pdfFolder,               \* names of the objects in the PDFs folder, oldest first
    mpc,                     \* position of process_mail_to_drive_workflow
    mail_run,                \* runs of it started so far
    emails,                  \* search_emails' result
    email_i,                 \* index of the message the loop is at
    processed_count,
    failed_count,
    mail_stats,              \* the dict the workflow returned
    g_mail,                  \* history: what the last processed message did
    g_searches,              \* history: number of search_emails calls made
    spc,                     \* position of run_scheduled_workflow
    srun,                    \* runs of it started so far
    logSheet,                \* the workflow_logs table, rows of cells
    remainingSheet,          \* the remaining-files table, rows of cells
    summary,                 \* the summary_data the run returned
    main_pc,                 \* position of main
    until_due,               \* hours until the scheduled job's next_run
    g_long,                  \* history: the run in progress has outlasted the interval
    peer_pc,                 \* position of a second process's drive-to-sheet run
    peer_files,              \* its pdf_files
    peer_headers,            \* its header list
    peer_headers_set,
    peer_sheet_rows,         \* its new_rows
    peer_rows_to_delete,
    peer_overlap,            \* history: its run and a run of the first process overlapped
    peer_seen_run            \* history: the first process's run count at its last step

sheetVars == <<sheet, failedSheet, pc, run, sheet_id, existing_ids, pdf_files, headers,
               headers_set, incomplete_extractions, stats, attempt, rows_data, sheet_rows,
               rows_to_delete, replace_ok, extracted_data, ped_rows,
               g_start, g_pre, g_outcome, g_fifth, g_waits, g_killed>>

mailVars == <<segments, mailbox, pdfFolder, mpc, mail_run, emails, email_i,
              processed_count, failed_count, mail_stats, g_mail, g_searches>>

schedVars == <<spc, srun, logSheet, remainingSheet, summary>>

mainVars == <<main_pc, until_due, g_long>>

peerVars == <<peer_pc, peer_files, peer_headers, peer_headers_set, peer_sheet_rows,
              peer_rows_to_delete, peer_overlap, peer_seen_run>>

vars == <<sheetVars, mailVars, schedVars, mainVars, peerVars, faults>>

ZeroStats == [total_pdfs |-> 0, processed_pdfs |-> 0, failed_pdfs |-> 0,
              skipped_pdfs |-> 0, rows_added |-> 0, incomplete |-> 0]

NoExtraction == [fields |-> NoFields, lists |-> <<>>]

Locals0 ==
    /\ pc = "idle"
    /\ run = 0
    /\ sheet_id = FailedSheetId
    /\ existing_ids = {}
    /\ pdf_files = <<>>
    /\ headers = <<>>
    /\ headers_set = FALSE
    /\ incomplete_extractions = <<>>
    /\ stats = ZeroStats
    /\ attempt = 0
    /\ rows_data = <<>>
    /\ sheet_rows = <<>>
    /\ rows_to_delete = <<>>
    /\ replace_ok = FALSE
    /\ g_start = <<>>
    /\ g_pre = <<>>
    /\ g_outcome = [f \in FileIds |-> "none"]
    /\ g_fifth = {}
    /\ g_waits = <<>>
    /\ g_killed = FALSE
    /\ faults = 0

NoMailStats == <<>>
NoMail == [email |-> NONE, got |-> FALSE, att_count |-> 0, visited |-> <<>>,
           raisedAt |-> {}, before |-> <<>>]

\* the mail workflow before its first run
MailLocals0 ==
    /\ pdfFolder = <<>>
    /\ mpc = "idle"
    /\ mail_run = 0
    /\ emails = <<>>
    /\ email_i = 0
    /\ processed_count = 0
    /\ failed_count = 0
    /\ mail_stats = NoMailStats
    /\ g_mail = NoMail
    /\ g_searches = 0

\* the mail side while only the drive-to-sheet workflow is looked at
MailIdle ==
    /\ segments = Range(FolderPath)
    /\ mailbox = [m \in Range(MailMessages) |-> TreeOne]
    /\ MailLocals0

NoSummary == <<>>

\* run_scheduled_workflow before its first run, its two tables empty
SchedIdle ==
    /\ spc = "idle"
    /\ srun = 0
    /\ logSheet = <<>>
    /\ remainingSheet = <<>>
    /\ summary = NoSummary

\* main has not called the workflow yet and no job is scheduled
MainIdle ==
    /\ main_pc = "initial"
    /\ until_due = 0
    /\ g_long = FALSE

\* no second process runs the drive-to-sheet workflow
PeerIdle ==
    /\ peer_pc = "idle"
    /\ peer_files = <<>>
    /\ peer_headers = <<>>
    /\ peer_headers_set = FALSE
    /\ peer_sheet_rows = <<>>
    /\ peer_rows_to_delete = <<>>
    /\ peer_overlap = FALSE
    /\ peer_seen_run = 0

\* both tables are empty before the first run
Init ==
    /\ sheet = <<>>
    /\ failedSheet = <<>>
    /\ Locals0
    /\ extracted_data = NoExtraction
    /\ ped_rows = <<>>
    /\ MailIdle
    /\ SchedIdle
    /\ MainIdle
    /\ PeerIdle

pdf_file == Head(pdf_files)

\* ------------------------------------------------------------------------
\* process_drive_to_sheet_workflow(config, skip_existing=True)
\* ------------------------------------------------------------------------
\* lines 766-775: the skip_existing filter, then the max_files slice
FilterExistingKeepsAll(files, ids) == files

FilterExisting(files, ids) == SelectSeq(files, LAMBDA f : f \notin ids)
Limit(files) == SubSeq(files, 1, Min(MaxFiles, Len(files)))

\* list_drive_pdfs: the folder's files, or [] when the listing raises
ListDrivePdfs(listOk) == IF listOk THEN DriveFiles ELSE <<>>

\* number of failing calls among the outcomes bs
Failures(bs) == Cardinality({i \in DOMAIN bs : ~bs[i]})

\* lines 736-785: everything up to the loop.  agentOk is FALSE when the
\* extraction agent cannot be resolved: the run returns the zero stats.
\* Outcomes of calls that are not made are not drawn.
StartRunUpTo(limit) ==
    /\ pc \in {"idle", "done"}
    /\ run < limit
    /\ run' = run + 1
    /\ g_start' = sheet
    /\ g_outcome' = [f \in FileIds |-> "none"]
    /\ g_fifth' = {}
    /\ incomplete_extractions' = <<>>
    /\ headers_set' = FALSE
    /\ attempt' = 0
    /\ rows_data' = <<>>
    /\ sheet_rows' = <<>>
    /\ rows_to_delete' = <<>>
    /\ replace_ok' = FALSE
    /\ g_pre' = <<>>
    /\ \E agentFails, sidFails, idsFails, listFails, hdrFails \in BOOLEAN :
         LET agentOk == ~agentFails
             sidOk == ~sidFails
             idsOk == ~idsFails
             listOk == ~listFails
             hdrOk == ~hdrFails
             ids == GetExistingDriveIds(sheet, idsOk)
             listed == ListDrivePdfs(listOk)
             todo == Limit(FilterExisting(listed, ids))
         IN /\ agentOk \/ (sidOk /\ idsOk /\ listOk)
            /\ (agentOk /\ todo # <<>>) \/ hdrOk
            /\ faults + Failures(<<agentOk, sidOk, idsOk, listOk, hdrOk>>) <= MaxFaults
            /\ faults' = faults + Failures(<<agentOk, sidOk, idsOk, listOk, hdrOk>>)
            /\ IF ~agentOk
               THEN /\ stats' = ZeroStats
                    /\ pc' = "done"
                    /\ sheet_id' = FailedSheetId
                    /\ existing_ids' = {}
                    /\ pdf_files' = <<>>
                    /\ headers' = <<>>
               ELSE /\ sheet_id' = IF sidOk THEN DestSheetId ELSE FailedSheetId
                    /\ existing_ids' = ids
                    /\ pdf_files' = todo
                    /\ stats' = [ZeroStats EXCEPT
                                    !.total_pdfs = Len(listed),
                                    !.skipped_pdfs =
                                        Len(listed) - Len(FilterExisting(listed, ids))]
                    /\ IF todo = <<>>
                       THEN pc' = "done" /\ headers' = <<>>
                       ELSE pc' = "download" /\ headers' = GetSheetHeaders(sheet, hdrOk)
    /\ extracted_data' = NoExtraction
    /\ UNCHANGED <<sheet, failedSheet, ped_rows>>
    /\ UNCHANGED <<g_waits, mailVars, schedVars, mainVars, peerVars, g_killed>>

StartRun == StartRunUpTo(MaxRuns)

\* the record of lines 896-906, appended when the finally block's os.remove
\* raises and the outer except catches it
AfterCleanup(st, inc, cleanupOk) ==
    IF cleanupOk THEN [st |-> st, inc |-> inc]
    ELSE [st |-> [st EXCEPT !.failed_pdfs = @ + 1],
          inc |-> Append(inc, FailedRecord(pdf_file, "Processing Error", 0, "N/A", Now(run)))]

\* the loop without the handler of lines 893-906: an exception of the
\* per-file body ends the run
FileDoneRaisesThrough(st, inc, outcome) ==
    /\ stats' = st
    /\ incomplete_extractions' = inc
    /\ g_outcome' = [g_outcome EXCEPT ![pdf_file] = outcome]
    /\ pdf_files' = Tail(pdf_files)
    /\ pc' = IF outcome = "Processing Error" THEN "done"
             ELSE IF Tail(pdf_files) = <<>> THEN "save" ELSE "download"
    /\ attempt' = 0
    /\ rows_data' = <<>>
    /\ sheet_rows' = <<>>
    /\ rows_to_delete' = <<>>
    /\ replace_ok' = FALSE
    /\ g_pre' = <<>>

\* pdf_file has reached its end: the loop moves on
FileDone(st, inc, outcome) ==
    /\ stats' = st
    /\ incomplete_extractions' = inc
    /\ g_outcome' = [g_outcome EXCEPT ![pdf_file] = outcome]
    /\ pdf_files' = Tail(pdf_files)
    /\ pc' = IF Tail(pdf_files) = <<>> THEN "save" ELSE "download"
    /\ attempt' = 0
    /\ rows_data' = <<>>
    /\ sheet_rows' = <<>>
    /\ rows_to_delete' = <<>>
    /\ replace_ok' = FALSE
    /\ g_pre' = <<>>

\* a call whose outcome is ok; a failing one uses up one of MaxFaults
Charge(ok) ==
    /\ ok \/ faults < MaxFaults
    /\ faults' = IF ok THEN faults ELSE faults + 1

\* lines 791-810: download_from_drive, then the temporary file
DownloadFailedRecord(file_id, now) ==
    FailedRecord(file_id, "Download Failed", 0, "N/A", now)

Download ==
    /\ pc = "download"
    /\ \E outcome \in {"ok", "empty", "tmp_raises"} :
         /\ Charge(outcome = "ok")
         /\ CASE outcome = "ok" ->
                   /\ pc' = "extract"
                   /\ attempt' = 1
                   /\ UNCHANGED <<stats, incomplete_extractions, g_outcome, pdf_files,
                                  rows_data, sheet_rows, rows_to_delete, replace_ok, g_pre>>
              [] outcome = "empty" ->
                   FileDone([stats EXCEPT !.failed_pdfs = @ + 1],
                            Append(incomplete_extractions,
                                   DownloadFailedRecord(pdf_file, Now(run))),
                            "Download Failed")
              [] outcome = "tmp_raises" ->
                   FileDone([stats EXCEPT !.failed_pdfs = @ + 1],
                            Append(incomplete_extractions,
                                   FailedRecord(pdf_file, "Processing Error", 0, "N/A", Now(run))),
                            "Processing Error")
    /\ UNCHANGED <<sheet, failedSheet, run, sheet_id, existing_ids, headers, headers_set,
                   extracted_data, ped_rows, g_start, g_fifth>>
    /\ UNCHANGED <<g_waits, mailVars, schedVars, mainVars, peerVars, g_killed>>

\* safe_extract's loop, for attempt in range(1, retries + 1): whether another
\* attempt follows a raising one
MoreAttemptsOffByOne(att, retries) == att <= retries

MoreAttempts(att, retries) == att < retries

ExtractionFailedRecord(file_id, now) ==
    FailedRecord(file_id, "Extraction Failed", 5, "standard_retry", now)

NoRowsRecordMislabelled(file_id, now) ==
    FailedRecord(file_id, "Extraction Failed", 5, "standard_retry", now)

NoRowsRecord(file_id, now) ==
    FailedRecord(file_id, "No Rows Extracted", 5, "standard_retry", now)

\* agent.extract raises: sleep and try again, or give up with None (lines
\* 668-672 and 815-829).  The raises of one file count as one failing call
\* of MaxFaults, charged with the first.
ExtractRaises ==
    /\ pc = "extract"
    /\ IF MoreAttempts(attempt, ExtractRetries)
       THEN /\ attempt' = attempt + 1
            /\ IF attempt = 1 THEN Charge(FALSE) ELSE UNCHANGED faults
            /\ UNCHANGED <<pc, stats, incomplete_extractions, g_outcome, pdf_files,
                           rows_data, sheet_rows, rows_to_delete, replace_ok, g_pre>>
       ELSE \E cleanupFails \in BOOLEAN :
              LET cleanupOk == ~cleanupFails
                  r == AfterCleanup([stats EXCEPT !.failed_pdfs = @ + 1],
                                    Append(incomplete_extractions,
                                           ExtractionFailedRecord(pdf_file, Now(run))),
                                    cleanupOk)
              IN Charge(cleanupOk) /\ FileDone(r.st, r.inc, "Extraction Failed")
    /\ UNCHANGED <<sheet, failedSheet, run, sheet_id, existing_ids, headers, headers_set,
                   extracted_data, ped_rows, g_start, g_fifth>>
    /\ UNCHANGED <<g_waits, mailVars, schedVars, mainVars, peerVars, g_killed>>

\* agent.extract returns: safe_extract returns the result, the rows are
\* computed and the file is classified (lines 665-667 and 832-850)
ExtractReturns ==
    /\ pc = "extract"
    /\ \E result \in WorkflowDocs :
         LET rows == ProcessExtractedData(result, FileInfo(pdf_file), Now(run))
         IN /\ extracted_data' = result
            /\ IF rows = <<>>
               THEN /\ \E cleanupFails \in BOOLEAN :
                         LET cleanupOk == ~cleanupFails
                             r == AfterCleanup([stats EXCEPT !.failed_pdfs = @ + 1],
                                               Append(incomplete_extractions,
                                                      NoRowsRecord(pdf_file, Now(run))),
                                               cleanupOk)
                         IN Charge(cleanupOk) /\ FileDone(r.st, r.inc, "No Rows Extracted")
                    /\ UNCHANGED g_fifth
               ELSE /\ stats' = [stats EXCEPT !.processed_pdfs = @ + 1]
                    /\ rows_data' = rows
                    /\ pc' = "reconcile"
                    /\ attempt' = 0
                    /\ g_fifth' = IF attempt = ExtractRetries
                                  THEN g_fifth \cup {pdf_file} ELSE g_fifth
                    /\ UNCHANGED <<incomplete_extractions, g_outcome, pdf_files,
                                   sheet_rows, rows_to_delete, replace_ok, g_pre, faults>>
    /\ UNCHANGED <<sheet, failedSheet, run, sheet_id, existing_ids, headers, headers_set,
                   ped_rows, g_start>>
    /\ UNCHANGED <<g_waits, mailVars, schedVars, mainVars, peerVars, g_killed>>

\* lines 852-873: the header is reconciled on the first file that has rows,
\* then the rows are laid out along the run's header
Reconcile ==
    /\ pc = "reconcile"
    /\ IF headers_set
       THEN UNCHANGED <<headers, sheet, faults>>
       ELSE \E new_headers \in {NewHeaders(rows_data)} :
            \E combined \in {Combined(headers, new_headers)} :
               /\ headers' = combined
               /\ IF HeaderWriteIssued(headers, new_headers)
                  THEN \E writeFails \in BOOLEAN :
                         /\ Charge(~writeFails)
                         /\ sheet' = UpdateHeaders(sheet, combined, ~writeFails)
                  ELSE UNCHANGED <<sheet, faults>>
    /\ headers_set' = TRUE
    /\ sheet_rows' = SheetRows(rows_data, headers')
    /\ pc' = "replace_read"
    /\ UNCHANGED <<failedSheet, run, sheet_id, existing_ids, pdf_files,
                   incomplete_extractions, stats, attempt, rows_data, rows_to_delete,
                   replace_ok, extracted_data, ped_rows, g_start, g_pre, g_outcome,
                   g_fifth>>
    /\ UNCHANGED <<g_waits, mailVars, schedVars, mainVars, peerVars, g_killed>>

\* ------------------------------------------------------------------------
\* replace_rows_for_file
\* ------------------------------------------------------------------------
\* lines 594-612: the snapshot and what it makes the function do next:
\* "append" (lines 596, 605 and the empty rows_to_delete) or "delete"
ReplacePlanFirstColumn(values, file_id) ==
    LET hits == {idx \in 2..Len(values) : values[idx] # <<>> /\ values[idx][1] = file_id}
    IN IF values = <<>> THEN [next |-> "append", rows |-> <<>>]
       ELSE IF "drive_file_id" \notin Range(values[1])
       THEN IF hits = {} THEN [next |-> "append", rows |-> <<>>]
            ELSE [next |-> "delete", rows |-> Descending(hits)]
       ELSE IF RowsToDelete(values, file_id) = <<>> THEN [next |-> "append", rows |-> <<>>]
       ELSE [next |-> "delete", rows |-> RowsToDelete(values, file_id)]

ReplacePlan(values, file_id) ==
    IF values = <<>> THEN [next |-> "append", rows |-> <<>>]
    ELSE IF "drive_file_id" \notin Range(values[1]) THEN [next |-> "append", rows |-> <<>>]
    ELSE IF RowsToDelete(values, file_id) = <<>> THEN [next |-> "append", rows |-> <<>>]
    ELSE [next |-> "delete", rows |-> RowsToDelete(values, file_id)]

ReplaceRead ==
    /\ pc = "replace_read"
    /\ \E readFails \in BOOLEAN :
         \E values \in {GetSheetData(sheet, ~readFails)} :
         \E plan \in {ReplacePlan(values, pdf_file)} :
            /\ Charge(~readFails)
            /\ rows_to_delete' = plan.rows
            /\ pc' = IF plan.next = "delete" THEN "replace_delete" ELSE "replace_append"
    /\ attempt' = 1
    /\ g_waits' = <<>>
    /\ g_pre' = sheet
    /\ UNCHANGED <<sheet, failedSheet, run, sheet_id, existing_ids, pdf_files, headers,
                   headers_set, incomplete_extractions, stats, rows_data, sheet_rows,
                   replace_ok, extracted_data, ped_rows, g_start, g_outcome, g_fifth>>
    /\ UNCHANGED <<mailVars, schedVars, mainVars, peerVars, g_killed>>

\* lines 612-631: the batched delete.  With the real sheet id the request
\* either applies or raises; with get_sheet_id's failure value 0 it addresses
\* whatever tab has id 0: it raises or removes rows of that other tab.
ReplaceDelete ==
    /\ pc = "replace_delete"
    /\ \E outcome \in {"applied", "raises"} :
         /\ Charge(outcome = "applied")
         /\ CASE outcome = "applied" ->
                   /\ sheet' = IF sheet_id = DestSheetId
                               THEN BatchDelete(sheet, rows_to_delete) ELSE sheet
                   /\ pc' = "replace_append"
                   /\ UNCHANGED replace_ok
              [] outcome = "raises" ->
                   /\ replace_ok' = FALSE
                   /\ pc' = "replaced"
                   /\ UNCHANGED sheet
    /\ UNCHANGED <<failedSheet, run, sheet_id, existing_ids, pdf_files, headers,
                   headers_set, incomplete_extractions, stats, attempt, rows_data,
                   sheet_rows, rows_to_delete, extracted_data, ped_rows, g_start, g_pre,
                   g_outcome, g_fifth>>
    /\ UNCHANGED <<g_waits, mailVars, schedVars, mainVars, peerVars, g_killed>>

\* append_to_google_sheet's loop, for attempt in range(1, max_retries + 1):
\* whether a failed attempt is followed by a sleep and another attempt
AppendRetriesOffByOne(att, max_retries) == att <= max_retries

AppendRetries(att, max_retries) == att < max_retries

\* append_to_google_sheet, one attempt of its loop (lines 568-588).  The
\* failing attempts of one call count as one failing call of MaxFaults,
\* charged with the first.
ReplaceAppend ==
    /\ pc = "replace_append"
    /\ \E appendFails \in BOOLEAN :
         /\ IF appendFails /\ attempt = 1 THEN Charge(FALSE) ELSE UNCHANGED faults
         /\ IF ~appendFails
            THEN /\ sheet' = AppendRows(sheet, sheet_rows, pdf_file, run)
                 /\ replace_ok' = TRUE
                 /\ pc' = "replaced"
                 /\ UNCHANGED <<attempt, g_waits>>
            ELSE IF AppendRetries(attempt, AppendMaxRetries)
            THEN /\ attempt' = attempt + 1
                 /\ g_waits' = Append(g_waits, AppendWaitTime)
                 /\ UNCHANGED <<sheet, replace_ok, pc>>
            ELSE /\ replace_ok' = FALSE
                 /\ pc' = "replaced"
                 /\ UNCHANGED <<sheet, attempt, g_waits>>
    /\ UNCHANGED <<failedSheet, run, sheet_id, existing_ids, pdf_files, headers,
                   headers_set, incomplete_extractions, stats, rows_data, sheet_rows,
                   rows_to_delete, extracted_data, ped_rows, g_start, g_pre, g_outcome,
                   g_fifth>>
    /\ UNCHANGED <<mailVars, schedVars, mainVars, peerVars, g_killed>>

\* lines 875-891: replace_rows_for_file has returned; the tally and the
\* finally block
Tally ==
    /\ pc = "replaced"
    /\ \E cleanupFails \in BOOLEAN :
         LET cleanupOk == ~cleanupFails
             st == IF replace_ok
                   THEN [stats EXCEPT !.rows_added = @ + Len(sheet_rows)]
                   ELSE [stats EXCEPT !.failed_pdfs = @ + 1]
             r == AfterCleanup(st, incomplete_extractions, cleanupOk)
         IN /\ Charge(cleanupOk)
            /\ FileDone(r.st, r.inc, IF replace_ok THEN "Written" ELSE "Write Failed")
    /\ UNCHANGED <<sheet, failedSheet, run, sheet_id, existing_ids, headers, headers_set,
                   extracted_data, ped_rows, g_start, g_fifth>>
    /\ g_waits' = <<>>
    /\ UNCHANGED <<mailVars, schedVars, mainVars, peerVars, g_killed>>

\* lines 908-925: the failed-extractions report, written only when the run
\* has records
SaveReport ==
    /\ pc = "save"
    /\ IF incomplete_extractions # <<>>
       THEN /\ \E clearFails, headerFails, dataFails \in BOOLEAN :
               LET clearOk == ~clearFails
                   headerOk == ~headerFails
                   dataOk == ~dataFails
               IN
                 /\ clearOk \/ (headerOk /\ dataOk)
                 /\ faults + Failures(<<clearOk, headerOk, dataOk>>) <= MaxFaults
                 /\ faults' = faults + Failures(<<clearOk, headerOk, dataOk>>)
                 /\ failedSheet' = SaveFailedExtractions(failedSheet, incomplete_extractions,
                                                         clearOk, headerOk, dataOk)
            /\ stats' = [stats EXCEPT !.incomplete = Len(incomplete_extractions)]
       ELSE UNCHANGED <<failedSheet, stats, faults>>
    /\ pc' = "done"
    /\ UNCHANGED <<sheet, run, sheet_id, existing_ids, pdf_files, headers, headers_set,
                   incomplete_extractions, attempt, rows_data, sheet_rows, rows_to_delete,
                   replace_ok, extracted_data, ped_rows, g_start, g_pre, g_outcome,
                   g_fifth>>
    /\ UNCHANGED <<g_waits, mailVars, schedVars, mainVars, peerVars, g_killed>>

Next ==
    \/ StartRun
    \/ Download
    \/ ExtractRaises
    \/ ExtractReturns
    \/ Reconcile
    \/ ReplaceRead
    \/ ReplaceDelete
    \/ ReplaceAppend
    \/ Tally
    \/ SaveReport

Spec == Init /\ [][Next]_vars

\* lines 787-925: the steps of a run once its loop has started.  The workflow
\* is one sequential call: every call it makes returns or raises and every
\* sleep is finite, so a run that can take its next step takes it.  Whether
\* another run is started is left to the caller.
RunStep ==
    \/ Download
    \/ ExtractRaises
    \/ ExtractReturns
    \/ Reconcile
    \/ ReplaceRead
    \/ ReplaceDelete
    \/ ReplaceAppend
    \/ Tally
    \/ SaveReport

\* The fair specification follows the runs with one failing call less per
\* behaviour than Spec does, which keeps its behaviour graph within reach:
\* a step that would use up the last failing call of MaxFaults is left out.
WithinFairFaults == faults' < MaxFaults

NextFair == Next /\ WithinFairFaults

SpecFair == Init /\ [][NextFair]_vars /\ WF_vars(RunStep /\ WithinFairFaults)

\* lines 787-906: the process is terminated while the run is inside its
\* file loop.  Nothing is returned and nothing more is written; the table
\* stays as the calls made so far left it.
LoopPositions == {"download", "extract", "reconcile", "replace_read",
                  "replace_delete", "replace_append", "replaced"}

Terminate ==
    /\ pc \in LoopPositions
    /\ pc' = "done"
    /\ g_killed' = TRUE
    /\ UNCHANGED <<sheet, failedSheet, run, sheet_id, existing_ids, pdf_files, headers,
                   headers_set, incomplete_extractions, stats, attempt, rows_data,
                   sheet_rows, rows_to_delete, replace_ok, extracted_data, ped_rows,
                   g_start, g_pre, g_outcome, g_fifth, g_waits>>
    /\ UNCHANGED <<mailVars, schedVars, mainVars, peerVars, faults>>

\* MaxRuns runs that may be terminated and in which calls may fail, then
\* one more run that is left to complete and in which every call to the
\* external services succeeds.
KillRuns == MaxRuns + 1

LastRunClean == run' = KillRuns => faults' = faults

NextKill ==
    \/ (StartRunUpTo(KillRuns) \/ RunStep) /\ LastRunClean /\ WithinFairFaults
    \/ run < KillRuns /\ Terminate

SpecKill == Init /\ [][NextKill]_vars

\* ------------------------------------------------------------------------
\* process_extracted_data as a function: the input is drawn, then the
\* function is applied to it
\* ------------------------------------------------------------------------
InitFn ==
    /\ sheet = <<>>
    /\ failedSheet = <<>>
    /\ Locals0
    /\ extracted_data \in ExtractionInputs
    /\ ped_rows = <<>>
    /\ MailIdle
    /\ SchedIdle
    /\ MainIdle
    /\ PeerIdle

ApplyProcessExtractedData ==
    /\ pc = "idle"
    /\ \E f \in FileIds :
         ped_rows' = ProcessExtractedData(extracted_data, FileInfo(f), Now(1))
    /\ pc' = "applied"
    /\ UNCHANGED <<sheet, failedSheet, run, sheet_id, existing_ids, pdf_files, headers,
                   headers_set, incomplete_extractions, stats, attempt, rows_data,
                   sheet_rows, rows_to_delete, replace_ok, extracted_data, g_start, g_pre,
                   g_outcome, g_fifth, faults>>
    /\ UNCHANGED <<g_waits, mailVars, schedVars, mainVars, peerVars, g_killed>>

NextFn == ApplyProcessExtractedData

SpecFn == InitFn /\ [][NextFn]_vars

\* ------------------------------------------------------------------------
\* process_mail_to_drive_workflow
\* ------------------------------------------------------------------------
\* the two result shapes of lines 402/413 and the one of lines 434-440
EarlyResult(success) ==
    [success |-> success, processed |-> 0, total_attachments |-> 0, failed |-> 0]

FinalResultArchivedOnly(processed, failed, n) ==
    [success |-> TRUE, processed |-> processed, total_attachments |-> n,
     failed |-> failed, emails_processed |-> processed]

FinalResult(processed, failed, n) ==
    [success |-> TRUE, processed |-> processed, total_attachments |-> n,
     failed |-> failed, emails_processed |-> n]

\* search_emails: the messages, or [] when the search raises
SearchEmails(searchOk) == IF searchOk THEN MailMessages ELSE <<>>

\* lines 396-417: the folder lookup, then the search
MailStart ==
    /\ mpc \in {"idle", "done"}
    /\ mail_run < MaxRuns
    /\ mail_run' = mail_run + 1
    /\ \E raisesAt \in 0..LookupsMade(segments), searchFails \in BOOLEAN :
         LET target_folder_id == FindTargetFolder(segments, raisesAt)
             found == SearchEmails(~searchFails)
             failing == (IF raisesAt # 0 THEN 1 ELSE 0) + (IF searchFails THEN 1 ELSE 0)
         IN /\ target_folder_id = NONE => ~searchFails
            /\ faults + failing <= MaxFaults
            /\ faults' = faults + failing
            /\ g_searches' = IF target_folder_id = NONE THEN g_searches ELSE g_searches + 1
            /\ IF target_folder_id = NONE
               THEN /\ mail_stats' = EarlyResult(FALSE)
                    /\ mpc' = "done"
                    /\ emails' = <<>>
               ELSE IF found = <<>>
               THEN /\ mail_stats' = EarlyResult(TRUE)
                    /\ mpc' = "done"
                    /\ emails' = <<>>
               ELSE /\ mail_stats' = NoMailStats
                    /\ mpc' = "loop"
                    /\ emails' = found
    /\ email_i' = 1
    /\ processed_count' = 0
    /\ failed_count' = 0
    /\ g_mail' = NoMail
    /\ UNCHANGED <<segments, mailbox, pdfFolder>>
    /\ UNCHANGED <<sheetVars, schedVars, mainVars, peerVars>>

\* the ids of the parts of a message's part tree
RECURSIVE PartIdsOf(_)
PartIdsOf(payload) ==
    {payload.id} \cup
        (IF "parts" \in DOMAIN payload
         THEN UNION {PartIdsOf(payload.parts[i]) : i \in DOMAIN payload.parts}
         ELSE {})

\* lines 419-432: one iteration of the loop over the messages; the calls
\* made for the parts of the message are the ones whose outcome is drawn
MailProcessEmail ==
    /\ mpc = "loop"
    /\ LET email == emails[email_i]
       IN \E getFails \in BOOLEAN,
             oracle \in [PartIdsOf(mailbox[emails[email_i]]) -> PartOutcomes] :
            LET r == ExtractAttachments(email, mailbox[email],
                                        [folder |-> pdfFolder, visited |-> <<>>,
                                         raisedAt |-> {}],
                                        oracle)
                att_count == r.count
                raisedAt == IF getFails THEN {} ELSE r.w.raisedAt
                failing == Cardinality(raisedAt) + (IF getFails THEN 1 ELSE 0)
            IN /\ Cardinality({p \in DOMAIN oracle : oracle[p] # "ok"}) <= MaxFaults - faults
               /\ {p \in DOMAIN oracle : oracle[p] # "ok"} = raisedAt
               /\ faults + failing <= MaxFaults
               /\ faults' = faults + failing
               /\ IF getFails
                  THEN /\ failed_count' = failed_count + 1
                       /\ UNCHANGED <<processed_count, pdfFolder>>
                       /\ g_mail' = [NoMail EXCEPT !.email = email, !.before = pdfFolder]
                  ELSE /\ pdfFolder' = r.w.folder
                       /\ IF att_count > 0
                          THEN /\ processed_count' = processed_count + att_count
                               /\ UNCHANGED failed_count
                          ELSE /\ failed_count' = failed_count + 1
                               /\ UNCHANGED processed_count
                       /\ g_mail' = [email |-> email, got |-> TRUE,
                                     att_count |-> att_count, visited |-> r.w.visited,
                                     raisedAt |-> r.w.raisedAt, before |-> pdfFolder]
    /\ email_i' = email_i + 1
    /\ mpc' = IF email_i = Len(emails) THEN "return" ELSE "loop"
    /\ UNCHANGED <<segments, mailbox, mail_run, emails, mail_stats, g_searches>>
    /\ UNCHANGED <<sheetVars, schedVars, mainVars, peerVars>>

\* lines 433-440: the result of a run that went through its messages
MailReturn ==
    /\ mpc = "return"
    /\ mail_stats' = FinalResult(processed_count, failed_count, Len(emails))
    /\ mpc' = "done"
    /\ UNCHANGED <<segments, mailbox, pdfFolder, mail_run, emails, email_i,
                   processed_count, failed_count, g_mail, g_searches, faults>>
    /\ UNCHANGED <<sheetVars, schedVars, mainVars, peerVars>>

\* the mailbox and the folders an operator has set up, before the first run
InitMail ==
    /\ sheet = <<>>
    /\ failedSheet = <<>>
    /\ Locals0
    /\ extracted_data = NoExtraction
    /\ ped_rows = <<>>
    /\ segments \in {Range(SubSeq(FolderPath, 1, n)) : n \in 0..3}
    /\ mailbox \in [Range(MailMessages) -> Payloads]
    /\ MailLocals0
    /\ SchedIdle
    /\ MainIdle
    /\ PeerIdle

NextMail ==
    \/ MailStart
    \/ MailProcessEmail
    \/ MailReturn

SpecMail == InitMail /\ [][NextMail]_vars

\* ------------------------------------------------------------------------
\* run_scheduled_workflow
\* ------------------------------------------------------------------------
\* log_workflow_to_sheet: the row of lines 943-954.  The cells come back
\* from the table as text; both times are the run's clock reading.
LogHeader == <<"Start Time", "End Time", "Duration", "Workflow", "Processed",
               "Total Items", "Failed", "Skipped", "Incomplete", "Status">>

LogStatus(st) ==
    IF GetDefault(st, "success", GetDefault(st, "processed_pdfs", 0) > 0)
    THEN "Success" ELSE "Failed"

LogRow(workflow_name, now, st) ==
    <<now, now, "0.00s", workflow_name,
      ToString(GetDefault(st, "processed", GetDefault(st, "processed_pdfs", 0))),
      ToString(GetDefault(st, "total_attachments", GetDefault(st, "rows_added", 0))),
      ToString(GetDefault(st, "failed", GetDefault(st, "failed_pdfs", 0))),
      ToString(GetDefault(st, "skipped_pdfs", 0)),
      ToString(GetDefault(st, "incomplete", 0)),
      LogStatus(st)>>

\* get_sheet_headers on a table of plain rows
FirstRow(table, readOk) == IF readOk /\ table # <<>> THEN Trim(table[1]) ELSE <<>>

\* lines 956-973: the header row when the table shows none, then the log
\* row; a failed append adds nothing and is not reported
LogWorkflowRewrites(table, row, readOk, headerOk, rowOk) ==
    <<LogHeader>> \o (IF rowOk THEN <<row>> ELSE <<>>)

LogWorkflow(table, row, readOk, headerOk, rowOk) ==
    (IF FirstRow(table, readOk) = <<>> /\ headerOk THEN Append(table, LogHeader) ELSE table)
        \o (IF rowOk THEN <<row>> ELSE <<>>)

\* lines 1031-1038
SheetStatsForLog(st) ==
    [processed_pdfs |-> st.processed_pdfs, rows_added |-> st.rows_added,
     failed_pdfs |-> st.failed_pdfs, skipped_pdfs |-> st.skipped_pdfs,
     incomplete |-> GetDefault(st, "incomplete", 0),
     success |-> st.processed_pdfs > 0]

\* save_remaining_files: clear, append the header, append the data; a
\* raising clear leaves the table as it was, a failed append adds nothing
RemainingHeader == <<"File Name", "File ID", "Created Time">>
RemainingRow(f) == <<FileName(f), f, "C" \o f>>

SaveRemainingFiles(table, files, clearOk, headerOk, dataOk) ==
    IF ~clearOk THEN table
    ELSE (IF headerOk THEN <<RemainingHeader>> ELSE <<>>)
            \o (IF dataOk THEN [i \in 1..Len(files) |-> RemainingRow(files[i])] ELSE <<>>)

\* lines 1045-1047: whether the remaining files are saved
RemainingSaved(drive_files, ids) == Len(drive_files) > Cardinality(ids)

\* lines 1048-1049
RemainingFiles(drive_files, ids) ==
    SelectSeq(drive_files, LAMBDA f : f \in (Range(drive_files) \ ids))

\* lines 1080-1081 and the status line of the notification (line 194)
SummaryDataBySuccessFlags(mail, st) ==
    [overall_success |-> GetDefault(mail, "success", FALSE)
                            /\ GetDefault(st, "processed_pdfs", 0) > 0,
     any_success |-> GetDefault(mail, "success", FALSE)
                            /\ GetDefault(st, "processed_pdfs", 0) > 0]

SummaryData(mail, st) ==
    [overall_success |-> GetDefault(mail, "success", FALSE)
                            /\ GetDefault(st, "processed_pdfs", 0) > 0,
     any_success |-> GetDefault(mail, "success", FALSE)
                            \/ GetDefault(st, "processed_pdfs", 0) > 0]

WorkflowStatus(summary_data) ==
    IF GetDefault(summary_data, "overall_success", FALSE) THEN "SUCCESS"
    ELSE IF GetDefault(summary_data, "any_success", FALSE) THEN "PARTIAL SUCCESS"
    ELSE "FAILED"

\* what a returned call of process_drive_to_sheet_workflow leaves behind:
\* the tables and the count of its runs; its locals are gone
SheetReturned ==
    /\ pc' = "idle"
    /\ sheet_id' = FailedSheetId
    /\ existing_ids' = {}
    /\ pdf_files' = <<>>
    /\ headers' = <<>>
    /\ headers_set' = FALSE
    /\ incomplete_extractions' = <<>>
    /\ stats' = ZeroStats
    /\ attempt' = 0
    /\ rows_data' = <<>>
    /\ sheet_rows' = <<>>
    /\ rows_to_delete' = <<>>
    /\ replace_ok' = FALSE
    /\ extracted_data' = NoExtraction
    /\ g_start' = <<>>
    /\ g_pre' = <<>>
    /\ g_outcome' = [f \in FileIds |-> "none"]
    /\ g_fifth' = {}
    /\ g_waits' = <<>>
    /\ UNCHANGED <<sheet, failedSheet, run, ped_rows, g_killed>>

\* the same for process_mail_to_drive_workflow: the folder, the count of
\* its runs and the returned dict stay
MailReturned ==
    /\ emails' = <<>>
    /\ email_i' = 0
    /\ processed_count' = 0
    /\ failed_count' = 0
    /\ g_mail' = NoMail
    /\ UNCHANGED <<segments, mailbox, pdfFolder, mpc, mail_run, mail_stats, g_searches>>

\* line 1018: a run starts; nothing of the previous run's calls is left but
\* the tables and the folder
SchedEnter ==
    /\ srun < MaxRuns
    /\ srun' = srun + 1
    /\ spc' = "mail"
    /\ summary' = NoSummary
    /\ SheetReturned
    /\ UNCHANGED <<logSheet, remainingSheet, faults>>
    /\ UNCHANGED <<mailVars, peerVars>>

\* the calls of one thread of control: the next begins when the last returned
SchedBegin ==
    /\ spc \in {"idle", "done"}
    /\ SchedEnter
    /\ UNCHANGED mainVars

\* line 1019: process_mail_to_drive_workflow is called
SchedMailStart == spc = "mail" /\ mail_run < srun /\ MailStart

SchedMailStep == spc = "mail" /\ (MailProcessEmail \/ MailReturn)

\* line 1021: the mail workflow has returned and is logged
SchedLogMail ==
    /\ spc = "mail"
    /\ mpc = "done"
    /\ mail_run = srun
    /\ \E readFails, headerFails, rowFails \in BOOLEAN :
         /\ headerFails => FirstRow(logSheet, ~readFails) = <<>>
         /\ faults + Failures(<<~readFails, ~headerFails, ~rowFails>>) <= MaxFaults
         /\ faults' = faults + Failures(<<~readFails, ~headerFails, ~rowFails>>)
         /\ logSheet' = LogWorkflow(logSheet, LogRow("Mail to Drive", Now(srun), mail_stats),
                                    ~readFails, ~headerFails, ~rowFails)
    /\ spc' = "sheet"
    /\ MailReturned
    /\ UNCHANGED <<srun, remainingSheet, summary>>
    /\ UNCHANGED <<sheetVars, mainVars, peerVars>>

\* line 1029: process_drive_to_sheet_workflow is called
SchedSheetStart == spc = "sheet" /\ run < srun /\ StartRun

SchedSheetStep == spc = "sheet" /\ RunStep

\* lines 1031-1039: the drive-to-sheet workflow has returned and is logged
SchedLogSheet ==
    /\ spc = "sheet"
    /\ pc = "done"
    /\ run = srun
    /\ \E readFails, headerFails, rowFails \in BOOLEAN :
         /\ headerFails => FirstRow(logSheet, ~readFails) = <<>>
         /\ faults + Failures(<<~readFails, ~headerFails, ~rowFails>>) <= MaxFaults
         /\ faults' = faults + Failures(<<~readFails, ~headerFails, ~rowFails>>)
         /\ logSheet' = LogWorkflow(logSheet,
                                    LogRow("Drive to Sheet", Now(srun), SheetStatsForLog(stats)),
                                    ~readFails, ~headerFails, ~rowFails)
    /\ spc' = "remaining"
    /\ UNCHANGED <<srun, remainingSheet, summary>>
    /\ UNCHANGED <<sheetVars, mailVars, mainVars, peerVars>>

\* lines 1041-1100: the remaining files, then the summary that is mailed and
\* returned
SchedFinish ==
    /\ spc = "remaining"
    /\ \E listFails, idsFails, clearFails, headerFails, dataFails \in BOOLEAN :
         \E drive_files \in {ListDrivePdfs(~listFails)} :
         \E ids \in {GetExistingDriveIds(sheet, ~idsFails)} :
            /\ RemainingSaved(drive_files, ids) \/ ~(clearFails \/ headerFails \/ dataFails)
            /\ clearFails => ~(headerFails \/ dataFails)
            /\ faults + Failures(<<~listFails, ~idsFails, ~clearFails, ~headerFails,
                                   ~dataFails>>) <= MaxFaults
            /\ faults' = faults + Failures(<<~listFails, ~idsFails, ~clearFails,
                                             ~headerFails, ~dataFails>>)
            /\ remainingSheet' =
                  IF RemainingSaved(drive_files, ids)
                  THEN SaveRemainingFiles(remainingSheet, RemainingFiles(drive_files, ids),
                                          ~clearFails, ~headerFails, ~dataFails)
                  ELSE remainingSheet
    /\ summary' = SummaryData(mail_stats, stats)
    /\ spc' = "done"
    /\ UNCHANGED <<srun, logSheet>>
    /\ UNCHANGED <<sheetVars, mailVars, mainVars, peerVars>>

NextSched ==
    \/ SchedBegin
    \/ SchedMailStart
    \/ SchedMailStep
    \/ SchedLogMail
    \/ SchedSheetStart
    \/ SchedSheetStep
    \/ SchedLogSheet
    \/ SchedFinish

SpecSched == Init /\ [][NextSched /\ WithinFairFaults]_vars

\* ------------------------------------------------------------------------
\* main
\* ------------------------------------------------------------------------
\* line 1138, every(3).hours: the interval, in hours
IntervalHours == 3

\* main's runs are followed with half of the failing calls of MaxFaults,
\* which keeps the interleaving of the clock with the runs within reach
WithinMainFaults == faults' <= MaxFaults \div 2

\* the initial run handed to another thread: main goes on to register the
\* job and to loop while the run executes
MainInitialRunThreaded ==
    /\ main_pc = "initial"
    /\ SchedEnter
    /\ main_pc' = "pending"
    /\ until_due' = IntervalHours
    /\ UNCHANGED g_long

\* line 1126: the initial run, a call main waits for
MainInitialRun ==
    /\ main_pc = "initial"
    /\ SchedEnter
    /\ main_pc' = "in_initial"
    /\ UNCHANGED <<until_due, g_long>>

\* the steps of the run main is inside
MainRunStep ==
    /\ spc \notin {"idle", "done"}
    /\ \/ SchedMailStart
       \/ SchedMailStep
       \/ SchedLogMail
       \/ SchedSheetStart
       \/ SchedSheetStep
       \/ SchedLogSheet
       \/ SchedFinish

MainUnchanged == UNCHANGED <<sheetVars, mailVars, schedVars, peerVars, faults>>

\* lines 1127-1140: the initial run has returned; the job is registered
\* with its first next_run one interval from now
MainSchedule ==
    /\ main_pc = "in_initial"
    /\ spc = "done"
    /\ main_pc' = "pending"
    /\ until_due' = IntervalHours
    /\ g_long' = FALSE
    /\ MainUnchanged

\* line 1146, schedule.run_pending(): a due job is called, here, by the
\* thread of the loop
MainRunPending ==
    /\ main_pc = "pending"
    /\ IF until_due = 0
       THEN /\ SchedEnter
            /\ main_pc' = "in_job"
            /\ UNCHANGED <<until_due, g_long>>
       ELSE /\ main_pc' = "sleep"
            /\ UNCHANGED <<until_due, g_long>>
            /\ MainUnchanged

\* the job has returned: its next_run is one interval from now, and
\* run_pending returns
MainJobReturns ==
    /\ main_pc = "in_job"
    /\ spc = "done"
    /\ main_pc' = "sleep"
    /\ until_due' = IntervalHours
    /\ g_long' = FALSE
    /\ MainUnchanged

\* line 1147, time.sleep(60)
MainSleep ==
    /\ main_pc = "sleep"
    /\ main_pc' = "pending"
    /\ UNCHANGED <<until_due, g_long>>
    /\ MainUnchanged

\* an hour passes, wherever main is; g_long records that the run in
\* progress has by now lasted longer than the interval
MainTick ==
    /\ \/ until_due > 0
       \/ spc \notin {"idle", "done"} /\ ~g_long
    /\ until_due' = IF until_due > 0 THEN until_due - 1 ELSE 0
    /\ g_long' \in IF spc \notin {"idle", "done"} THEN {g_long, TRUE} ELSE {g_long}
    /\ UNCHANGED main_pc
    /\ MainUnchanged

NextMain ==
    \/ MainInitialRun
    \/ MainRunStep
    \/ MainSchedule
    \/ MainRunPending
    \/ MainJobReturns
    \/ MainSleep
    \/ MainTick

SpecMain == Init /\ [][NextMain /\ WithinMainFaults]_vars

\* ------------------------------------------------------------------------
\* Two processes: a second process runs process_drive_to_sheet_workflow on
\* the same destination table while the first one makes its runs.  The
\* second process is followed through one run in which every call succeeds
\* and every file yields rows; its counters and its report are its own and
\* are left out.
\* ------------------------------------------------------------------------
\* history: the generation the second process's rows are tagged with
PeerGen == MaxRuns + 1

peer_file == Head(peer_files)

\* history: a step of the second process meets the first one inside a run,
\* or finds that a run of it began since the last step
PeerMeets ==
    /\ peer_overlap' = (peer_overlap \/ pc \notin {"idle", "done"}
                           \/ (peer_pc # "idle" /\ run # peer_seen_run))
    /\ peer_seen_run' = run

PeerUnchanged ==
    UNCHANGED <<failedSheet, pc, run, sheet_id, existing_ids, pdf_files, headers,
                headers_set, incomplete_extractions, stats, attempt, rows_data, sheet_rows,
                rows_to_delete, replace_ok, extracted_data, ped_rows, g_start, g_pre,
                g_outcome, g_fifth, g_waits, g_killed, mailVars, schedVars, mainVars,
                faults>>

\* lines 736-785: the ids in the table, the listing, the skip_existing
\* filter and the header
PeerStart ==
    /\ peer_pc = "idle"
    /\ \E todo \in {Limit(FilterExisting(ListDrivePdfs(TRUE),
                                         GetExistingDriveIds(sheet, TRUE)))} :
         /\ peer_files' = todo
         /\ IF todo = <<>>
            THEN peer_pc' = "done" /\ peer_headers' = <<>>
            ELSE peer_pc' = "extract" /\ peer_headers' = GetSheetHeaders(sheet, TRUE)
    /\ PeerMeets
    /\ UNCHANGED <<sheet, peer_headers_set, peer_sheet_rows, peer_rows_to_delete>>
    /\ PeerUnchanged

\* lines 791-873: download, extraction and the rows of the file, then the
\* header reconciled on the first file and the rows laid out along it
PeerExtract ==
    /\ peer_pc = "extract"
    /\ \E result \in WorkflowDocs :
         \E rows \in {ProcessExtractedData(result, FileInfo(peer_file), Now(PeerGen))} :
            /\ rows # <<>>
            /\ IF peer_headers_set
               THEN UNCHANGED <<peer_headers, sheet>>
               ELSE \E new_headers \in {NewHeaders(rows)} :
                    \E combined \in {Combined(peer_headers, new_headers)} :
                       /\ peer_headers' = combined
                       /\ sheet' = IF HeaderWriteIssued(peer_headers, new_headers)
                                   THEN UpdateHeaders(sheet, combined, TRUE)
                                   ELSE sheet
            /\ peer_sheet_rows' = SheetRows(rows, peer_headers')
    /\ peer_headers_set' = TRUE
    /\ peer_pc' = "replace_read"
    /\ PeerMeets
    /\ UNCHANGED <<peer_files, peer_rows_to_delete>>
    /\ PeerUnchanged

\* lines 594-612 of replace_rows_for_file
PeerReplaceRead ==
    /\ peer_pc = "replace_read"
    /\ \E plan \in {ReplacePlan(GetSheetData(sheet, TRUE), peer_file)} :
         /\ peer_rows_to_delete' = plan.rows
         /\ peer_pc' = IF plan.next = "delete" THEN "replace_delete" ELSE "replace_append"
    /\ PeerMeets
    /\ UNCHANGED <<sheet, peer_files, peer_headers, peer_headers_set, peer_sheet_rows>>
    /\ PeerUnchanged

\* lines 612-631: the batched delete
PeerReplaceDelete ==
    /\ peer_pc = "replace_delete"
    /\ sheet' = BatchDelete(sheet, peer_rows_to_delete)
    /\ peer_pc' = "replace_append"
    /\ PeerMeets
    /\ UNCHANGED <<peer_files, peer_headers, peer_headers_set, peer_sheet_rows,
                   peer_rows_to_delete>>
    /\ PeerUnchanged

\* lines 633 and 875-891: the append, then the loop moves on
PeerReplaceAppend ==
    /\ peer_pc = "replace_append"
    /\ sheet' = AppendRows(sheet, peer_sheet_rows, peer_file, PeerGen)
    /\ peer_files' = Tail(peer_files)
    /\ peer_pc' = IF Tail(peer_files) = <<>> THEN "done" ELSE "extract"
    /\ peer_sheet_rows' = <<>>
    /\ peer_rows_to_delete' = <<>>
    /\ PeerMeets
    /\ UNCHANGED <<peer_headers, peer_headers_set>>
    /\ PeerUnchanged

PeerStep ==
    \/ PeerStart
    \/ PeerExtract
    \/ PeerReplaceRead
    \/ PeerReplaceDelete
    \/ PeerReplaceAppend

\* the steps of the first process's runs in which every call succeeds
\* (agent.extract does not raise in them)
CleanStep ==
    /\ \/ StartRun
       \/ Download
       \/ ExtractReturns
       \/ Reconcile
       \/ ReplaceRead
       \/ ReplaceDelete
       \/ ReplaceAppend
       \/ Tally
       \/ SaveReport
    /\ faults' = faults

\* the runs of the first process and the run of the second, in any
\* interleaving of their steps
NextTwo ==
    \/ CleanStep
    \/ PeerStep

SpecTwo == Init /\ [][NextTwo]_vars

\* ------------------------------------------------------------------------
\* Vocabulary of the properties
\* ------------------------------------------------------------------------
DataRows(table) == SubSeq(table, 2, Len(table))

HeaderCells(table) == IF table = <<>> THEN <<>> ELSE Trim(table[1].cells)

\* position of the drive_file_id column, 0 when the header has none
DriveIdCol(table) == IndexOf(HeaderCells(table), "drive_file_id")

\* the row holds file_id in column col
HoldsId(row, col, file_id) ==
    col > 0 /\ Len(row.cells) >= col /\ row.cells[col] = file_id

\* number of data rows whose drive_file_id cell is file_id
RowsFor(table, file_id) ==
    Cardinality({i \in 2..Len(table) : HoldsId(table[i], DriveIdCol(table), file_id)})

Count(records, file_id, status) ==
    Cardinality({i \in DOMAIN records :
                    records[i].file_id = file_id /\ records[i].status = status})

InReplace == pc \in {"replace_delete", "replace_append", "replaced"}

\* ------------------------------------------------------------------------
\* C1
\* ------------------------------------------------------------------------
\* C1 (as claimed): when replace_rows_for_file has completed for pdf_file
\* with N new rows, the table holds exactly N data rows whose drive_file_id
\* cell is that file id.  Stated for the calls that report success on a
\* table whose header row is the run's header.
C1_ExactlyNewRows ==
    (pc = "replaced" /\ replace_ok /\ HeaderCells(sheet) = headers)
        => RowsFor(sheet, pdf_file) = Len(sheet_rows)

\* ------------------------------------------------------------------------
\* C2
\* ------------------------------------------------------------------------
\* rows the current call did not append
C2_Old(row) == ~(row.src = pdf_file /\ row.gen = run)
C2_Other(row) == ~HoldsId(row, DriveIdCol(g_pre), pdf_file)

\* C2: whatever the outcome of its calls, replace_rows_for_file leaves the
\* header row and every data row of another file present, unchanged and in
\* the same order; and in the scenario of the specification (the snapshot
\* has 3 rows for the file, 2 new rows are handed in, and the header write,
\* the sheet id lookup, the delete and the append all went through) exactly
\* 2 rows for the file remain, both of them new.
C2_OtherRowsUntouched ==
    pc = "replaced" =>
        /\ SelectSeq(SelectSeq(DataRows(sheet), C2_Old), C2_Other)
               = SelectSeq(DataRows(g_pre), C2_Other)
        /\ g_pre # <<>> => sheet[1] = g_pre[1]
        /\ (Len(rows_to_delete) = 3 /\ Len(sheet_rows) = 2 /\ replace_ok
               /\ sheet_id = DestSheetId /\ HeaderCells(sheet) = headers)
              => /\ RowsFor(sheet, pdf_file) = 2
                 /\ \A i \in 2..Len(sheet) :
                        HoldsId(sheet[i], DriveIdCol(sheet), pdf_file)
                            => sheet[i].gen = run

C2_Witness ==
    /\ pc = "replaced"
    /\ Len(rows_to_delete) = 3
    /\ Len(sheet_rows) = 2
    /\ replace_ok
    /\ sheet_id = DestSheetId
    /\ HeaderCells(sheet) = headers
    /\ SelectSeq(DataRows(g_pre), C2_Other) # <<>>

\* ------------------------------------------------------------------------
\* C3
\* ------------------------------------------------------------------------
\* C3 (as claimed): in every state, all rows computed from one file were
\* written by one processing of it.  Stated for tables whose row 1 is a
\* header of column names with a drive_file_id column.
C3_SingleGeneration ==
    ("drive_file_id" \in Range(HeaderCells(sheet))
        /\ Range(HeaderCells(sheet)) \subseteq Range(KeyOrder))
      => \A i, j \in 2..Len(sheet) :
            sheet[i].src = sheet[j].src => sheet[i].gen = sheet[j].gen

\* ------------------------------------------------------------------------
\* C4
\* ------------------------------------------------------------------------
\* the rows computed from file f, in table order
C4_RowsOf(table, f) == SelectSeq(table, LAMBDA row : row.src = f)

C5_HeaderNeverShrinks ==
    (pc = "done" /\ "drive_file_id" \in Range(HeaderCells(g_start)))
        => Range(HeaderCells(g_start)) \subseteq Range(HeaderCells(sheet))

\* ------------------------------------------------------------------------
\* C6
\* ------------------------------------------------------------------------
C6_Position(table, k) == IndexOf(HeaderCells(table), k)

\* C6 (as claimed, its second half): a key that has a position in the
\* header keeps that position in every later state.
C6_KeyPositionStable ==
    [][\A k \in Range(KeyOrder) :
          C6_Position(sheet, k) > 0 => C6_Position(sheet', k) = C6_Position(sheet, k)]_vars

\* ------------------------------------------------------------------------
\* C7
\* ------------------------------------------------------------------------
\* C7: no Row returned by process_extracted_data has a key whose value is
\* the empty string or None.
C7_NoEmptyValues ==
    pc = "applied" =>
        \A i \in DOMAIN ped_rows : \A k \in DOMAIN ped_rows[i] :
            ped_rows[i][k] \notin {EMPTY, NONE}

\* a line item with a None value and no document-level supplier
C7_Witness ==
    /\ pc = "applied"
    /\ ped_rows # <<>>
    /\ \E k \in DOMAIN ItemsOf(extracted_data)[1] :
          /\ ItemsOf(extracted_data)[1][k] = NONE
          /\ k \notin DOMAIN ped_rows[1]
    /\ "supplier" \notin DOMAIN ped_rows[1]
    /\ "po_number" \in DOMAIN ped_rows[1]

\* ------------------------------------------------------------------------
\* C8
\* ------------------------------------------------------------------------
\* C8 (as claimed): a file whose extraction raised four times and returned
\* line items on the fifth attempt, and whose rows were written, has no
\* entry in the failed-extractions table after the run.  Stated for runs
\* that produced no FailedExtraction record at all.
C8_NoFailedEntry ==
    \A f \in FileIds :
        (pc = "done" /\ f \in g_fifth /\ g_outcome[f] = "Written"
            /\ incomplete_extractions = <<>>)
          => /\ stats.processed_pdfs >= 1
             /\ stats.failed_pdfs = 0
             /\ \A i \in DOMAIN failedSheet : failedSheet[i][3] # f

C10_Labels == {"Download Failed", "Extraction Failed", "No Rows Extracted"}

\* number of agent.extract calls made for pdf_file so far
C10_AttemptsMade == IF pc = "extract" THEN attempt ELSE 0

\* C10 (as claimed): the record produced for one of the three outcomes
\* carries the number of extraction attempts actually made.
C10_AttemptsActuallyMade ==
    [][(Len(incomplete_extractions') > Len(incomplete_extractions)
          /\ incomplete_extractions'[Len(incomplete_extractions) + 1].status \in C10_Labels)
         => incomplete_extractions'[Len(incomplete_extractions) + 1].attempts
                = C10_AttemptsMade]_vars

\* C10 (amended): the three outcomes are distinct terminal outcomes; each
\* produces exactly one record carrying its own status label; all three
\* add to the one failed_pdfs counter, which is the number of records plus
\* the files whose sheet write failed; and the attempts value of a record is
\* fixed by its label: 0 for Download Failed, 5 for the other two.
C10_OneLabelledRecord ==
    /\ \A f \in FileIds : \A l \in C10_Labels :
          Count(incomplete_extractions, f, l) = IF g_outcome[f] = l THEN 1 ELSE 0
    /\ \A i \in DOMAIN incomplete_extractions :
          LET r == incomplete_extractions[i]
          IN r.status \in C10_Labels =>
                r.attempts = IF r.status = "Download Failed" THEN 0 ELSE 5
    /\ pc # "idle" =>
          stats.failed_pdfs = Len(incomplete_extractions)
                + Cardinality({f \in FileIds : g_outcome[f] = "Write Failed"})

\* all three labels on record: one from the run before, two from this run
C10_Witness ==
    /\ pc = "save"
    /\ \E i \in DOMAIN failedSheet : failedSheet[i][4] = "Download Failed"
    /\ Count(incomplete_extractions, "F1", "Extraction Failed") = 1
    /\ Count(incomplete_extractions, "F2", "No Rows Extracted") = 1
    /\ stats.failed_pdfs = 2

\* ------------------------------------------------------------------------
\* C11
\* ------------------------------------------------------------------------
\* the five resolved fields and the key names tried for each, in order
C11_Alternates ==
    [ po_number |-> <<"po_number", "purchase_order_number">>,
      vendor_invoice_number |->
          <<"vendor_invoice_number", "invoice_number", "supplier_bill_number">>,
      supplier |-> <<"supplier", "vendor">>,
      shipping_address |-> <<"shipping_address", "receiver_address", "Shipping Address">>,
      grn_date |-> <<"grn_date", "delivered_on">> ]

\* the alternates of field that hold a value in d; "", None and 0 are empty
C11_Filled(d, field) ==
    SelectSeq(C11_Alternates[field], LAMBDA k : k \in DOMAIN d /\ d[k] \notin Falsy)

\* C11: in every Row, each of the five document-level fields holds the
\* value of the first of its alternate keys that is non-empty in the
\* extraction result ("", None and 0 being empty), and is absent from the
\* Row when none is; in particular with po_number and invoice_number given
\* and no vendor_invoice_number, vendor_invoice_number is the
\* invoice_number value.
C11_FirstNonEmptyAlternate ==
    pc = "applied" =>
        \A i \in DOMAIN ped_rows :
            /\ \A field \in DOMAIN C11_Alternates :
                  LET filled == C11_Filled(extracted_data.fields, field)
                  IN IF filled = <<>>
                     THEN field \notin DOMAIN ped_rows[i]
                     ELSE /\ field \in DOMAIN ped_rows[i]
                          /\ ped_rows[i][field] = extracted_data.fields[filled[1]]
            /\ LET d == extracted_data.fields
               IN ({"po_number", "invoice_number"} \subseteq DOMAIN d
                     /\ d["po_number"] \notin Falsy /\ d["invoice_number"] \notin Falsy
                     /\ "vendor_invoice_number" \notin DOMAIN d)
                    => ped_rows[i]["vendor_invoice_number"] = d["invoice_number"]

\* the scenario: po_number and invoice_number, no vendor_invoice_number
C11_Witness ==
    /\ pc = "applied"
    /\ ped_rows # <<>>
    /\ DOMAIN extracted_data.fields = {"po_number", "invoice_number"}
    /\ extracted_data.fields["po_number"] = "A"
    /\ extracted_data.fields["invoice_number"] = "B"
    /\ ped_rows[1]["vendor_invoice_number"] = "B"
    /\ "supplier" \notin DOMAIN ped_rows[1]

\* ------------------------------------------------------------------------
\* C12
\* ------------------------------------------------------------------------
\* the keys process_extracted_data writes into every line item
C12_Written == {"po_number", "vendor_invoice_number", "supplier", "shipping_address",
                "grn_date", "source_file", "processed_date", "drive_file_id"}

\* the line items of the key that is present, `items` first
C12_LineItems(lists) ==
    IF "items" \in DOMAIN lists THEN lists["items"] ELSE lists["product_items"]

\* rows are the Rows of the line items of lists: one Row per line item, in
\* order, carrying the line item's own non-empty values
C12_RowsOfItems(rows, lists) ==
    IF {"items", "product_items"} \cap DOMAIN lists = {}
    THEN rows = <<>>
    ELSE /\ Len(rows) = Len(C12_LineItems(lists))
         /\ \A i \in DOMAIN rows :
               \A k \in DOMAIN C12_LineItems(lists)[i] \ C12_Written :
                   C12_LineItems(lists)[i][k] \notin {EMPTY, NONE}
                       => /\ k \in DOMAIN rows[i]
                          /\ rows[i][k] = C12_LineItems(lists)[i][k]

\* the step in which agent.extract returned for pdf_file
C12_Returned ==
    /\ pc = "extract"
    /\ pc' # "extract"
    /\ g_outcome'[pdf_file] # "Extraction Failed"

\* C12: process_extracted_data gives zero rows for a result with neither
\* `items` nor `product_items` and the Rows of the present key's line items
\* otherwise; and in the workflow a file whose result has neither key ends
\* as 'No Rows Extracted', with its record, and the loop of the same run
\* moves on to the next file.
C12_NoItemsKeyIsNoRows ==
    /\ \A lists \in ListDicts :
            C12_RowsOfItems(
                ProcessExtractedData([fields |-> NoFields, lists |-> lists],
                                     FileInfo("F1"), Now(1)),
                lists)
    /\ [][C12_Returned =>
            IF {"items", "product_items"} \cap DOMAIN extracted_data'.lists = {}
            THEN /\ g_outcome'[pdf_file] = "No Rows Extracted"
                 /\ Count(incomplete_extractions', pdf_file, "No Rows Extracted") = 1
                 /\ pdf_files' = Tail(pdf_files)
                 /\ pc' \in {"download", "save"}
                 /\ run' = run
                 /\ sheet' = sheet
            ELSE /\ pc' = "reconcile"
                 /\ C12_RowsOfItems(rows_data', extracted_data'.lists)]_vars

\* F1's result had neither key, the loop has gone on to F2
C12_Witness ==
    /\ pc = "download"
    /\ pdf_files = <<"F2">>
    /\ g_outcome["F1"] = "No Rows Extracted"
    /\ DOMAIN extracted_data.lists = {}
    /\ stats.failed_pdfs = 1

\* ------------------------------------------------------------------------
\* C13
\* ------------------------------------------------------------------------
\* every part of a part tree, the root included
RECURSIVE C13_Parts(_)
C13_Parts(payload) ==
    {payload} \cup
        (IF "parts" \in DOMAIN payload
         THEN UNION {C13_Parts(payload.parts[i]) : i \in DOMAIN payload.parts}
         ELSE {})

\* the part's filename is the filter, case apart, and it has an attachment id
C13_Matching(part) ==
    /\ "filename" \in DOMAIN part
    /\ Lower(part.filename) = Lower(AttachmentFilter)
    /\ "body" \in DOMAIN part
    /\ "attachmentId" \in DOMAIN part.body
    /\ part.body["attachmentId"] # EMPTY

C13_Archived(payload, raisedAt) ==
    {part \in C13_Parts(payload) : C13_Matching(part) /\ part.id \notin raisedAt}

\* C13: for the message last processed, extract_attachments_from_email has
\* visited every part of its tree exactly once, at every depth; the count it
\* returned is the number of matching parts for which no call raised; and
\* when there is such a part the object named after the message and the
\* filter is in the PDFs folder.
C13_EveryPartOnce ==
    g_mail.got =>
        LET payload == mailbox[g_mail.email]
        IN /\ Len(g_mail.visited) = Cardinality(C13_Parts(payload))
           /\ Range(g_mail.visited) = {part.id : part \in C13_Parts(payload)}
           /\ g_mail.att_count = Cardinality(C13_Archived(payload, g_mail.raisedAt))
           /\ g_mail.raisedAt \subseteq
                  {part.id : part \in {q \in C13_Parts(payload) : C13_Matching(q)}}
           /\ C13_Archived(payload, g_mail.raisedAt) # {}
                  => (g_mail.email \o "_" \o Lower(AttachmentFilter)) \in Range(pdfFolder)

\* the part three levels deep is archived although its sibling's fetch raised
C13_Witness ==
    /\ g_mail.got
    /\ mailbox[g_mail.email] = TreeDeep
    /\ g_mail.raisedAt = {"p5"}
    /\ g_mail.att_count = 1
    /\ g_mail.before = <<>>
    /\ pdfFolder = <<g_mail.email \o "_attachment.pdf">>

\* ------------------------------------------------------------------------
\* C14
\* ------------------------------------------------------------------------
\* the run went through its messages and has returned
C14_Returned == mpc = "done" /\ "emails_processed" \in DOMAIN mail_stats

\* C14: each iteration of the loop adds the message's number of archived
\* parts to processed, or, when that number is zero or the message could not
\* be fetched, exactly one to failed; the result reports these two counters
\* and counts every message found in emails_processed; with message M1
\* holding one matching attachment, M2 none and no failing call, the result
\* is processed = 1, failed = 1, emails_processed = 2.
C14_MailCounters ==
    /\ [][mpc = "loop" =>
            LET archived ==
                    IF g_mail'.got
                    THEN Cardinality(C13_Archived(mailbox[g_mail'.email], g_mail'.raisedAt))
                    ELSE 0
            IN /\ g_mail'.email = emails[email_i]
               /\ processed_count' = processed_count + archived
               /\ failed_count' = failed_count + (IF archived = 0 THEN 1 ELSE 0)]_vars
    /\ [](C14_Returned =>
            /\ mail_stats.emails_processed = Len(MailMessages)
            /\ mail_stats.processed = processed_count
            /\ mail_stats.failed = failed_count
            /\ mail_stats.success
            /\ email_i = Len(emails) + 1)
    /\ [](C14_Returned /\ faults = 0 /\ mailbox["M1"] = TreeOne /\ mailbox["M2"] = TreeNone
            => /\ mail_stats.processed = 1
               /\ mail_stats.failed = 1
               /\ mail_stats.emails_processed = 2)

\* the scenario, after its first run
C14_Witness ==
    /\ C14_Returned
    /\ mail_run = 1
    /\ faults = 0
    /\ mailbox["M1"] = TreeOne
    /\ mailbox["M2"] = TreeNone
    /\ mail_stats.processed = 1
    /\ mail_stats.failed = 1
    /\ pdfFolder = <<"M1_attachment.pdf">>

\* ------------------------------------------------------------------------
\* C15
\* ------------------------------------------------------------------------
\* C15: when a call made for one attachment raises (the fetch of its bytes,
\* the lookup of its name or the create), the traversal still visits every
\* part of the message and archives every other matching part, the loop goes
\* on to the next message, no result is returned early, and the run that
\* went through its messages returns success = True.
C15_AttachmentFailureIsolated ==
    /\ [][(mpc = "loop" /\ g_mail'.raisedAt # {}) =>
            LET payload == mailbox[emails[email_i]]
                others == C13_Archived(payload, g_mail'.raisedAt)
            IN /\ Range(g_mail'.visited) = {part.id : part \in C13_Parts(payload)}
               /\ g_mail'.att_count = Cardinality(others)
               /\ others # {} =>
                     (emails[email_i] \o "_" \o Lower(AttachmentFilter)) \in Range(pdfFolder')
               /\ email_i' = email_i + 1
               /\ mpc' = IF email_i < Len(emails) THEN "loop" ELSE "return"
               /\ mail_stats' = mail_stats]_vars
    /\ [][mpc = "return" =>
            /\ mpc' = "done"
            /\ mail_stats'.success
            /\ mail_stats'.emails_processed = Len(emails)]_vars

\* first run: a call raised for one of M1's two matching parts, the other
\* was archived, then M2 was processed and the run returned success
C15_Witness ==
    /\ C14_Returned
    /\ mail_run = 1
    /\ faults = 1
    /\ mailbox["M1"] = TreeDeep
    /\ mailbox["M2"] = TreeOne
    /\ g_mail.email = "M2"
    /\ g_mail.got
    /\ g_mail.raisedAt = {}
    /\ mail_stats.success
    /\ mail_stats.processed = 2
    /\ mail_stats.failed = 0
    /\ pdfFolder = <<"M1_attachment.pdf", "M2_attachment.pdf">>

\* ------------------------------------------------------------------------
\* C16
\* ------------------------------------------------------------------------
C16_SegmentMissing == \E i \in 1..3 : FolderPath[i] \notin segments

\* C16: when one of the three folders of the path is missing, a run of
\* process_mail_to_drive_workflow returns success = False with all counts
\* zero; it makes no search, processes no message, stores nothing in the
\* PDFs folder and creates no folder.
C16_MissingFolderAborts ==
    /\ [][(mail_run' = mail_run + 1 /\ C16_SegmentMissing) =>
            /\ mail_stats' = [success |-> FALSE, processed |-> 0,
                              total_attachments |-> 0, failed |-> 0]
            /\ mpc' = "done"
            /\ g_searches' = g_searches
            /\ pdfFolder' = pdfFolder]_vars
    /\ [][segments' = segments]_vars
    /\ [](C16_SegmentMissing =>
            /\ mpc \in {"idle", "done"}
            /\ g_searches = 0
            /\ g_mail = NoMail
            /\ pdfFolder = <<>>)

\* two runs with the PDFs folder missing
C16_Witness ==
    /\ segments = {"Gmail_Attachments", "Hyperpure GRN"}
    /\ mail_run = 2
    /\ faults = 0
    /\ mpc = "done"
    /\ ~mail_stats.success
    /\ \E m \in DOMAIN mailbox : mailbox[m] = TreeOne

\* ------------------------------------------------------------------------
\* C17
\* ------------------------------------------------------------------------
\* the name upload_to_drive gives the attachment of a message
C17_Name(message_id) == message_id \o "_" \o Lower(AttachmentFilter)

\* C17: upload_to_drive, when the folder already holds the prefixed name,
\* leaves the folder as it is and returns True; so a message whose object is
\* already there is processed without any new object and still counted as
\* archived; and in every state the PDFs folder holds each name at most
\* once, however many runs have been made.
C17_UploadIdempotent ==
    /\ [](\A m \in Range(MailMessages) :
            LET folder == <<"X_attachment.pdf", C17_Name(m)>>
            IN UploadToDrive(Lower(AttachmentFilter), folder, m, "ok")
                  = [ok |-> TRUE, folder |-> folder, raised |-> FALSE])
    /\ [][(mpc = "loop" /\ C17_Name(emails[email_i]) \in Range(pdfFolder)) =>
            /\ pdfFolder' = pdfFolder
            /\ (g_mail'.got /\ C13_Archived(mailbox[emails[email_i]], g_mail'.raisedAt) # {})
                  => /\ g_mail'.att_count >= 1
                     /\ processed_count' > processed_count]_vars
    /\ [](\A i, j \in DOMAIN pdfFolder : pdfFolder[i] = pdfFolder[j] => i = j)

\* the second run over the same two messages: both counted, nothing added
C17_Witness ==
    /\ mail_run = 2
    /\ C14_Returned
    /\ mail_stats.processed >= 2
    /\ g_mail.before = <<"M1_attachment.pdf", "M2_attachment.pdf">>
    /\ pdfFolder = <<"M1_attachment.pdf", "M2_attachment.pdf">>

\* ------------------------------------------------------------------------
\* C18
\* ------------------------------------------------------------------------
\* the distinct non-empty values in the drive_file_id column of the data rows
C18_ColumnValues(table) ==
    LET col == DriveIdCol(table)
    IN IF table = <<>> \/ col = 0 THEN {}
       ELSE {table[i].cells[col] :
                i \in {j \in 2..Len(table) :
                          Len(table[j].cells) >= col /\ table[j].cells[col] # EMPTY}}

\* C18: for every table the workflow can leave behind, get_existing_drive_ids
\* (its read succeeding) returns exactly the distinct non-empty values of
\* the drive_file_id column of the data rows, and the empty set when the
\* table is empty or row 1 has no drive_file_id cell; the set a run works
\* with is that set (or, C4, the empty set when the read raised).
C18_ExistingIdsAreColumnValues ==
    /\ [](GetExistingDriveIds(sheet, TRUE) = C18_ColumnValues(sheet))
    /\ []((sheet = <<>> \/ "drive_file_id" \notin Range(HeaderCells(sheet)))
             => GetExistingDriveIds(sheet, TRUE) = {})
    /\ [][run' = run + 1 => existing_ids' \in {C18_ColumnValues(sheet), {}}]_vars

\* a run that found both ids, each on several rows, under a header that has
\* the id in its second column
C18_Witness ==
    /\ run = 2
    /\ pc = "done"
    /\ existing_ids = {"F1", "F2"}
    /\ DriveIdCol(sheet) = 2
    /\ RowsFor(sheet, "F1") = 2
    /\ RowsFor(sheet, "F2") = 2

\* ------------------------------------------------------------------------
\* C19
\* ------------------------------------------------------------------------
\* C19: append_to_google_sheet makes at most AppendMaxRetries (3) calls of
\* values.append; the first call that succeeds ends it with True and the
\* rows in the table; a failing call that is not the last is followed by a
\* sleep of AppendWaitTime and the next call; the third failing call ends it
\* with False, nothing raised and nothing written; all sleeps are the same.
C19_BoundedAppend ==
    /\ [](pc = "replace_append" =>
            /\ attempt \in 1..AppendMaxRetries
            /\ Len(g_waits) = attempt - 1
            /\ \A i \in DOMAIN g_waits : g_waits[i] = AppendWaitTime)
    /\ [][pc = "replace_append" =>
            \/ /\ pc' = "replaced" /\ replace_ok'
               /\ Len(sheet') = Len(sheet) + Len(sheet_rows)
               /\ attempt' = attempt /\ g_waits' = g_waits
            \/ /\ pc' = "replace_append" /\ attempt < AppendMaxRetries
               /\ attempt' = attempt + 1
               /\ g_waits' = Append(g_waits, AppendWaitTime)
               /\ sheet' = sheet
            \/ /\ pc' = "replaced" /\ ~replace_ok'
               /\ attempt = AppendMaxRetries
               /\ g_waits' = g_waits
               /\ sheet' = sheet]_vars
    /\ [](pc = "replaced" /\ ~replace_ok /\ Len(g_waits) > 0
            => Len(g_waits) = AppendMaxRetries - 1)

\* three calls failed: two sleeps, False, and the file counted as failed
C19_Witness ==
    /\ pc = "replaced"
    /\ ~replace_ok
    /\ attempt = AppendMaxRetries
    /\ g_waits = <<AppendWaitTime, AppendWaitTime>>
    /\ sheet = g_pre

\* ------------------------------------------------------------------------
\* C20
\* ------------------------------------------------------------------------
\* the labels a file of the loop ends with
C20_Terminal == {"Download Failed", "Processing Error", "Extraction Failed",
                 "No Rows Extracted", "Written", "Write Failed"}

\* the positions inside the body of the per-file loop
C20_InLoop == pc \in {"download", "extract", "reconcile", "replace_read",
                      "replace_delete", "replace_append", "replaced"}

\* a step of the loop body: the run goes on with the same file, or the file
\* gets its label and the loop goes to the next file, or to the report after
\* the last one
C20_LoopStep ==
    /\ run' = run
    /\ \/ /\ pc' \in {"extract", "reconcile", "replace_read", "replace_delete",
                     "replace_append", "replaced"}
          /\ pdf_files' = pdf_files
          /\ g_outcome' = g_outcome
       \/ /\ pdf_files' = Tail(pdf_files)
          /\ g_outcome'[pdf_file] \in C20_Terminal
          /\ \A f \in FileIds \ {pdf_file} : g_outcome'[f] = g_outcome[f]
          /\ pc' = IF pdf_files' = <<>> THEN "save" ELSE "download"

\* C20: under SpecFair no failure of the per-file path ends the run.  While
\* the loop has files, the file at hand has no label yet and every step
\* either stays with it or labels it and moves on to the next one; the run
\* ends only from the report that follows the last file, or before the loop
\* with no file selected, which is where a failure to resolve the agent
\* ends it; the files that have their label and the files still to process
\* are together the files selected, so at the report every selected file
\* has its label; and the run does reach its end.
C20_NoPerFileAbort ==
    /\ [](C20_InLoop => /\ pdf_files # <<>>
                        /\ \A i \in DOMAIN pdf_files : g_outcome[pdf_files[i]] = "none")
    /\ [][C20_InLoop => C20_LoopStep]_vars
    /\ [][pc' = "done" /\ pc # "done" =>
            /\ pdf_files' = <<>>
            /\ pc = "save" \/ (\A f \in FileIds : g_outcome'[f] = "none")]_vars
    /\ [][pc = "save" => pc' = "done" /\ g_outcome' = g_outcome /\ run' = run]_vars
    /\ []((C20_InLoop \/ pc = "save") =>
             Cardinality({f \in FileIds : g_outcome[f] \in C20_Terminal}) + Len(pdf_files)
                = stats.total_pdfs - stats.skipped_pdfs)
    /\ C20_InLoop ~> (pc = "done")

\* F1 ended in a 'Processing Error', F2 was written in the same run and the
\* run has returned
C20_Witness ==
    /\ pc = "done"
    /\ g_outcome["F1"] = "Processing Error"
    /\ g_outcome["F2"] = "Written"
    /\ Count(incomplete_extractions, "F1", "Processing Error") = 1
    /\ stats.failed_pdfs = 1

\* ------------------------------------------------------------------------
\* C21
\* ------------------------------------------------------------------------
\* the rows of the failed-extractions table below its header row
C21_DataRows(table) == IF table = <<>> THEN <<>> ELSE Tail(table)

\* the rows save_failed_extractions writes for the records of a run
C21_RowsOf(records) == [i \in 1..Len(records) |-> FailedRow(records[i])]

\* C21 (as claimed): after every run the failed-extractions table holds
\* exactly the records of that run, none when the run had no failed file.
\* Stated for behaviours in which every call to the external services went
\* through.
C21_SnapshotOfLatestRun ==
    (pc = "done" /\ run >= 1 /\ faults = 0)
        => C21_DataRows(failedSheet) = C21_RowsOf(incomplete_extractions)

\* ------------------------------------------------------------------------
\* C22
\* ------------------------------------------------------------------------
\* the storage items whose id has no row in the destination table
C22_Remaining ==
    SelectSeq(DriveFiles, LAMBDA f : f \notin GetExistingDriveIds(sheet, TRUE))

\* C22 (as claimed): after every run of run_scheduled_workflow the
\* remaining-files table lists exactly the storage items whose id has no
\* row in the destination table, also when there is none: the rows below
\* its header are the rows of those items.  Stated for behaviours in which
\* every call to the external services went through.
C22_RemainingIsExact ==
    (spc = "done" /\ faults = 0)
        => C21_DataRows(remainingSheet) =
               [i \in 1..Len(C22_Remaining) |-> RemainingRow(C22_Remaining[i])]

\* ------------------------------------------------------------------------
\* C23
\* ------------------------------------------------------------------------
\* the three-way status over two flags
C23_ThreeWay(a, b) ==
    IF a /\ b THEN "SUCCESS" ELSE IF a \/ b THEN "PARTIAL SUCCESS" ELSE "FAILED"

\* a run of run_scheduled_workflow has returned its summary
C23_Returned == spc = "done" /\ summary # NoSummary

\* C23 (as claimed): the status is SUCCESS when both workflows completed at
\* least one successful unit (an attachment archived, a file processed),
\* PARTIAL SUCCESS when exactly one did, FAILED when neither did.
C23_StatusByUnits ==
    C23_Returned =>
        WorkflowStatus(summary) =
            C23_ThreeWay(GetDefault(mail_stats, "processed", 0) > 0,
                         stats.processed_pdfs > 0)

\* C23 (amended): the status is three-valued over the mail workflow's
\* `success` flag and the drive-to-sheet workflow's count of processed
\* files: SUCCESS when the flag is set and the count is positive, PARTIAL
\* SUCCESS when exactly one holds, FAILED when neither does.  The flag can
\* be set with no attachment archived; a run with the flag unset archived
\* none.
C23_StatusByFlagAndCount ==
    C23_Returned =>
        /\ WorkflowStatus(summary) =
              C23_ThreeWay(mail_stats.success, stats.processed_pdfs > 0)
        /\ ~mail_stats.success => mail_stats.processed = 0

\* SUCCESS although the mail workflow archived nothing: its search found no
\* message
C23_Witness ==
    /\ C23_Returned
    /\ WorkflowStatus(summary) = "SUCCESS"
    /\ mail_stats.success
    /\ mail_stats.processed = 0
    /\ stats.processed_pdfs = 2

\* ------------------------------------------------------------------------
\* C24
\* ------------------------------------------------------------------------
\* the last run has completed after an earlier run was terminated
C24_Retried == g_killed /\ run = KillRuns /\ pc = "done"

\* the table holds the rows of one processing of f, or f was processed in
\* this run and no row was computed from it
C24_ExactlyOnce(f) ==
    LET rows == C4_RowsOf(sheet, f)
    IN /\ \A i, j \in DOMAIN rows : rows[i].gen = rows[j].gen
       /\ rows = <<>> => g_outcome[f] = "No Rows Extracted"

\* C24 (as claimed): when a run was terminated inside its file loop and a
\* later run has completed with every external call succeeding, the table
\* holds for every listed file the rows computed from it, once: no file has
\* rows of two processings and no file is missing.
C24_ConvergesAfterTermination ==
    C24_Retried => \A f \in FileIds : C24_ExactlyOnce(f)

\* ------------------------------------------------------------------------
\* C25
\* ------------------------------------------------------------------------
\* a is a leading part of b
C25_Prefix(a, b) == Len(a) <= Len(b) /\ SubSeq(b, 1, Len(a)) = a

\* number of log rows of the named workflow (cell 4 of a log row)
C25_Logged(table, workflow_name) ==
    Cardinality({i \in DOMAIN table : table[i][4] = workflow_name})

\* the positions of run_scheduled_workflow follow one another in this order
C25_Order == {<<"idle", "mail">>, <<"mail", "sheet">>, <<"sheet", "remaining">>,
              <<"remaining", "done">>, <<"done", "mail">>}

\* the step in which the named workflow's execution is logged
C25_LogStep(workflow_name) ==
    IF workflow_name = "Mail to Drive" THEN spc = "mail" /\ spc' = "sheet"
    ELSE spc = "sheet" /\ spc' = "remaining"

\* a run passes once through each position, and the table changes only in
\* the two log steps and only by rows added at its end
C25_Growth ==
    /\ spc' # spc => <<spc, spc'>> \in C25_Order
    /\ C25_Prefix(logSheet, logSheet')
    /\ logSheet' # logSheet =>
          \E name \in {"Mail to Drive", "Drive to Sheet"} : C25_LogStep(name)

C26_RowHoldsFileId ==
    \A i \in DOMAIN sheet :
        sheet[i].src # HDR =>
            LET col == DriveIdCol(sheet)
            IN /\ col > 0
               /\ Len(sheet[i].cells) >= col
               /\ sheet[i].cells[col] = sheet[i].src

\* ------------------------------------------------------------------------
\* C27
\* ------------------------------------------------------------------------
\* the keys of the batch, and those of them that the header h does not have,
\* in lexical order
C27_BatchKeys == UNION {DOMAIN rows_data[i] : i \in DOMAIN rows_data}

C27_NewKeys(h) == SelectSeq(KeyOrder, LAMBDA k : k \in C27_BatchKeys /\ k \notin Range(h))

\* the step that reconciles a header read as non-empty
C27_Reconciles == pc = "reconcile" /\ ~headers_set /\ headers # <<>>

\* C27 (as claimed): the header reconciled from a non-empty existing header
\* is that header, cell for cell in its order, followed by the batch's keys
\* it does not have, in lexical order.
C27_ExistingThenNewKeys ==
    [][C27_Reconciles => headers' = headers \o C27_NewKeys(headers)]_vars

\* a run has reconciled a header it read as non-empty: the key amount, new
\* in this batch, stands last, behind keys that follow it in lexical order
C27_Witness ==
    /\ pc = "replace_read"
    /\ run = 2
    /\ HeaderCells(g_start) = <<"drive_file_id", "processed_date", "sku", "source_file">>
    /\ headers = HeaderCells(g_start) \o <<"amount", "vendor_invoice_number">>
    /\ HeaderCells(sheet) = headers

\* ------------------------------------------------------------------------
\* C28
\* ------------------------------------------------------------------------
\* the reconciling step of a run whose header, read as non-empty, has every
\* key of the batch
C28_NothingNew ==
    /\ pc = "reconcile"
    /\ ~headers_set
    /\ headers # <<>>
    /\ C27_BatchKeys \subseteq Range(headers)

\* C28: a reconcile step makes a call (one that changes the table, or one
\* that fails) only if the reconciled header differs from the header the
\* run read; when that header is non-empty and has every key of the first
\* batch, the step makes no call, and the run's header and the table, its
\* header row included, stay as they are.
C28_WriteOnlyOnChange ==
    [][/\ (pc = "reconcile" /\ (sheet' # sheet \/ faults' # faults))
            => headers' # headers
       /\ C28_NothingNew =>
            /\ sheet' = sheet
            /\ faults' = faults
            /\ headers' = headers]_vars

\* the first batch of a second run brought no new key: the header is the
\* one the run started with and the rows are laid out along it
C28_Witness ==
    /\ pc = "replace_read"
    /\ run = 2
    /\ headers_set
    /\ headers = HeaderCells(g_start)
    /\ Len(headers) = 4
    /\ C27_BatchKeys \subseteq Range(headers)
    /\ sheet = g_start
    /\ Len(sheet) > 1
    /\ sheet_rows # <<>>

\* ------------------------------------------------------------------------
\* C29
\* ------------------------------------------------------------------------
\* files of this run that have yielded rows before the current one
C29_Earlier == {f \in FileIds : g_outcome[f] \in {"Written", "Write Failed"}}

\* row i of the rows handed to replace_rows_for_file has one cell per name
\* of the header h: the value of the row under that name, or the empty cell
C29_AlongHeader(rows, i, h) ==
    /\ Len(rows[i]) = Len(h)
    /\ \A j \in 1..Len(h) :
          rows[i][j] = IF h[j] \in DOMAIN rows_data[i] THEN rows_data[i][h[j]] ELSE EMPTY

\* C29: within a run the header changes only in the reconcile step of the
\* first file that yields rows; the reconcile step of every later file
\* leaves the run's header and the table as they are, and the rows it lays
\* out have the header's cells only, so a value under a key that the header
\* does not have is not written.
C29_ReconciledOnce ==
    [][/\ (headers' # headers /\ run' = run)
            => (pc = "reconcile" /\ ~headers_set /\ C29_Earlier = {})
       /\ (pc = "reconcile" /\ ~headers_set) => (headers_set' /\ C29_Earlier = {})
       /\ (pc = "reconcile" /\ C29_Earlier # {}) => headers_set
       /\ (pc = "reconcile" /\ headers_set) =>
            /\ headers' = headers
            /\ sheet' = sheet
            /\ faults' = faults
            /\ Len(sheet_rows') = Len(rows_data)
            /\ \A i \in DOMAIN rows_data : C29_AlongHeader(sheet_rows', i, headers)]_vars

\* the second file of a run has a key that the header fixed on the first
\* file does not have: its rows are written without that key's values
C29_Witness ==
    /\ pc = "replaced"
    /\ replace_ok
    /\ headers_set
    /\ C29_Earlier # {}
    /\ pdf_file \notin C29_Earlier
    /\ ~(C27_BatchKeys \subseteq Range(headers))
    /\ HeaderCells(sheet) = headers
    /\ \A i \in DOMAIN sheet_rows : C29_AlongHeader(sheet_rows, i, headers)
    /\ SubSeq(sheet, Len(sheet) - Len(sheet_rows) + 1, Len(sheet)) =
          [i \in DOMAIN sheet_rows |-> [cells |-> sheet_rows[i], src |-> pdf_file, gen |-> run]]

\* ------------------------------------------------------------------------
\* C30
\* ------------------------------------------------------------------------
\* positions of the snapshot's data rows that hold the file's id
C30_Matching ==
    {i \in 2..Len(g_pre) : HoldsId(g_pre[i], DriveIdCol(g_pre), pdf_file)}

\* the table as the first n delete operations of the request leave it
C30_After(n) == BatchDelete(g_pre, SubSeq(rows_to_delete, 1, n))

\* the snapshot without the rows at the positions in S
C30_Without(S) ==
    LET kept == {i \in DOMAIN g_pre : i \notin S}
    IN [k \in 1..Cardinality(kept) |->
           g_pre[CHOOSE i \in kept : Cardinality({j \in kept : j < i}) = k - 1]]

\* C30: when replace_rows_for_file is about to delete, its operations are the
\* positions of the matching rows of the snapshot in strictly descending
\* order, and the table is still the snapshot; every operation finds, at its
\* position, as many rows above it as the snapshot had, so it removes the row
\* the snapshot held there.  The request is one step: the table is left as it
\* was, or (the request applied to the destination tab) it is the snapshot
\* without exactly the matching rows.
C30_DescendingBatch ==
    /\ [](pc = "replace_delete" =>
            /\ sheet = g_pre
            /\ rows_to_delete # <<>>
            /\ Range(rows_to_delete) = C30_Matching
            /\ \A k \in 1..(Len(rows_to_delete) - 1) :
                  rows_to_delete[k] > rows_to_delete[k + 1]
            /\ \A k \in DOMAIN rows_to_delete :
                  /\ rows_to_delete[k] <= Len(C30_After(k - 1))
                  /\ SubSeq(C30_After(k - 1), 1, rows_to_delete[k])
                        = SubSeq(g_pre, 1, rows_to_delete[k])
                  /\ Len(C30_After(k)) = Len(g_pre) - k)
    /\ [][pc = "replace_delete" =>
            /\ sheet' \in {sheet, C30_Without(C30_Matching)}
            /\ (pc' = "replace_append" /\ sheet_id = DestSheetId)
                  => sheet' = C30_Without(C30_Matching)]_vars

\* three matching rows, with rows of the other file below them in the
\* table, were removed by one request and the other file's rows stayed
C30_Witness ==
    /\ pc = "replace_append"
    /\ sheet_id = DestSheetId
    /\ Len(rows_to_delete) = 3
    /\ rows_to_delete[1] < Len(g_pre)
    /\ sheet = C30_Without(C30_Matching)
    /\ Len(sheet) = Len(g_pre) - 3
    /\ Len(sheet) > 1

\* ------------------------------------------------------------------------
\* C31
\* ------------------------------------------------------------------------
\* the snapshot that replace_rows_for_file reads in this step is empty (the
\* table is, or the read fails) or its row 1 names no drive_file_id column
C31_NothingToMatch ==
    /\ pc = "replace_read"
    /\ \/ sheet = <<>>
       \/ faults' # faults
       \/ "drive_file_id" \notin Range(HeaderCells(sheet))

\* the rows that the call at hand appends
C31_NewRows ==
    [i \in DOMAIN sheet_rows |-> [cells |-> sheet_rows[i], src |-> pdf_file, gen |-> run]]

\* C31: when the snapshot is empty or has no drive_file_id column,
\* replace_rows_for_file goes on to the append with no row to delete and
\* the table as it was; a delete request is only reached with rows to
\* delete, taken from a non-empty snapshot that has the column; and a call
\* that had no row to delete leaves the table as it was when the call began
\* or with the new rows below it.
C31_AppendOnly ==
    /\ [][C31_NothingToMatch =>
            /\ pc' = "replace_append"
            /\ rows_to_delete' = <<>>
            /\ sheet' = sheet]_vars
    /\ [](pc = "replace_delete" =>
            /\ rows_to_delete # <<>>
            /\ g_pre # <<>>
            /\ "drive_file_id" \in Range(HeaderCells(g_pre)))
    /\ []((pc \in {"replace_append", "replaced"} /\ rows_to_delete = <<>>) =>
            sheet \in {g_pre, g_pre \o C31_NewRows})

\* the table had rows of the file but no drive_file_id column: nothing was
\* deleted and the new rows stand below the old ones
C31_Witness ==
    /\ pc = "replaced"
    /\ replace_ok
    /\ rows_to_delete = <<>>
    /\ g_pre # <<>>
    /\ "drive_file_id" \notin Range(HeaderCells(g_pre))
    /\ \E i \in 2..Len(g_pre) : g_pre[i].src = pdf_file
    /\ sheet = g_pre \o C31_NewRows
    /\ sheet_rows # <<>>

\* ------------------------------------------------------------------------
\* C32
\* ------------------------------------------------------------------------
\* C32 (as claimed): when a run has ended, it has one FailedExtraction
\* record for every file it counted as failed, the files whose sheet append
\* failed included.
C32_EveryFailureRecorded ==
    pc = "done" => Len(incomplete_extractions) = stats.failed_pdfs

\* ------------------------------------------------------------------------
\* C33: under main's scheduler a run of run_scheduled_workflow is never
\* started while an earlier run of the same process is still executing,
\* however long that run takes relative to the 3-hour interval.
\* ------------------------------------------------------------------------
C33_Executing == spc \notin {"idle", "done"}

C33_SingleInstance == [][srun' # srun => ~C33_Executing]_vars

\* a scheduled run is in progress and has outlasted the interval
C33_Witness ==
    /\ main_pc = "in_job"
    /\ C33_Executing
    /\ g_long
    /\ until_due = 0

\* ------------------------------------------------------------------------
\* C34: two runs of the drive-to-sheet workflow that overlap in time are not
\* safe: some interleaving of their reads, deletes and appends leaves the
\* table with two generations of rows for one drive_file_id.  The witness is
\* that state, reached with no failing call.  The property is the other
\* half: with no failing call, a table holds two generations of one file's
\* rows only if the runs of the two processes have overlapped.
\* ------------------------------------------------------------------------
C34_TwoGenerations ==
    \E i, j \in 2..Len(sheet) :
        sheet[i].src = sheet[j].src /\ sheet[i].gen # sheet[j].gen

\* a run of the first process and the run of the second have overlapped
C34_Overlapped ==
    \/ peer_overlap
    \/ /\ peer_pc \notin {"idle", "done"}
       /\ pc \notin {"idle", "done"} \/ run # peer_seen_run

C34_OnlyWhenOverlapping == C34_TwoGenerations => C34_Overlapped

\* both processes have ended their runs, which overlapped, and the table
\* holds rows of one file from each of them
C34_Witness ==
    /\ \E i, j \in 2..Len(sheet) :
          sheet[i].src = sheet[j].src /\ sheet[i].gen = 1 /\ sheet[j].gen = PeerGen
    /\ faults = 0
    /\ run = 1
    /\ pc = "done"
    /\ peer_pc = "done"
    /\ peer_overlap

\* ------------------------------------------------------------------------
\* C35 (as claimed): when process_drive_to_sheet_workflow ends, every file
\* the loop iterated is counted in exactly one of processed_pdfs and
\* failed_pdfs, so the two add up to the number of files iterated, and
\* rows_added is the number of rows of the files whose row replacement
\* returned success.
\* ------------------------------------------------------------------------
C35_Iterated == {f \in FileIds : g_outcome[f] # "none"}

C35_RowsOfReplaced ==
    Cardinality({i \in DOMAIN sheet :
                    /\ sheet[i].gen = run
                    /\ sheet[i].src \in FileIds
                    /\ g_outcome[sheet[i].src] = "Written"})

C35_RowsAddedIsRowsWritten == (pc = "done" /\ run > 0) => stats.rows_added = C35_RowsOfReplaced

C35_CountedExactlyOnce ==
    (pc = "done" /\ run > 0)
      => /\ stats.processed_pdfs + stats.failed_pdfs = Cardinality(C35_Iterated)
         /\ stats.rows_added = C35_RowsOfReplaced

\* ------------------------------------------------------------------------
\* C36: process_extracted_data's document-level resolution always overwrites
\* a line item's own value under the enriched keys: the Row holds the
\* resolved value whatever the item carried, and when no document-level
\* alternate is non-empty the item's own value is dropped from the Row.
\* ------------------------------------------------------------------------
\* the enriched keys item i of the input carries itself
C36_Own(i) == C12_Written \cap DOMAIN C12_LineItems(extracted_data.lists)[i]

C36_ItemValueOverwritten ==
    pc = "applied" =>
        \A i \in DOMAIN ped_rows :
        \A k \in C36_Own(i) :
            IF k \in DOMAIN C11_Alternates
            THEN LET filled == C11_Filled(extracted_data.fields, k)
                 IN IF filled = <<>>
                    THEN k \notin DOMAIN ped_rows[i]
                    ELSE ped_rows[i][k] = extracted_data.fields[filled[1]]
            ELSE /\ k \in DOMAIN ped_rows[i]
                 /\ ped_rows[i]["drive_file_id"] \in FileIds
                 /\ ped_rows[i]["source_file"] = FileName(ped_rows[i]["drive_file_id"])
                 /\ ped_rows[i]["processed_date"] = Now(1)

\* the item carries po_number "B", the document resolves no po_number, and
\* the Row has none
C36_Witness ==
    /\ pc = "applied"
    /\ ped_rows # <<>>
    /\ "po_number" \in C36_Own(1)
    /\ C12_LineItems(extracted_data.lists)[1]["po_number"] = "B"
    /\ C11_Filled(extracted_data.fields, "po_number") = <<>>
    /\ "po_number" \notin DOMAIN ped_rows[1]
    /\ "sku" \in DOMAIN ped_rows[1]

====
